---- MODULE Spec2Model ----
(***************************************************************************)
(* State-machine model of the agentic backend: the streaming chat pipeline *)
(* (app/api/v1/chat.py) and the refresh-token lifecycle                    *)
(* (app/services/auth_service.py).                                         *)
(*                                                                         *)
(* Strings of the program (message text, deltas, content) are sequences of *)
(* one-character strings, so concatenation, strip and split are computed.  *)
(***************************************************************************)
EXTENDS Integers, Sequences, FiniteSets, TLC

(* ------------------------------------------------------------------ *)
(* Bounds of the model                                                 *)
(* ------------------------------------------------------------------ *)

\* most text deltas the gateway sends in one streamed turn
MaxDeltas == 2

\* most rows of table refresh_tokens
MaxRecords == 3

\* the clock advances tick by tick up to here; then only by a whole token lifetime
MaxTime == 1

\* resolution of the clock: ticks in a second (the clock counts ticks)
TicksPerSecond == 2

(* ------------------------------------------------------------------ *)
(* Values                                                              *)
(* ------------------------------------------------------------------ *)

\* the ids of the users that call the chat endpoints
Users == {1, 2}

\* request slots: each is one incoming HTTP call with its own store session
Requests == {"r1", "r2"}

\* Optional[UUID] = None
NoId == 0

\* ids handed out by the store (uuid4 defaults), in order of creation
Ids == 1..(3 * Cardinality(Requests))

\* a conversation id no row ever has (a UUID the client made up)
GhostId == 3 * Cardinality(Requests) + 1

\* author_id: Optional[UUID] = None
NoAuthor == 0

Whitespace == {" "}

\* title = last_content[:80]
TITLE_LEN == 80

\* a prompt text one character longer than a title, with a leading blank
LongText == [i \in 1..(TITLE_LEN + 1) |-> IF i = 1 THEN " " ELSE "x"]

\* prompt texts a client sends: a whitespace-only one and one longer than a title
Texts == {<<" ">>, LongText}

\* the text deltas the gateway can send (ResponseTextDeltaEvent.delta)
DeltaSet == {<<"a">>, <<"b", " ">>}

VARIABLES
    conversations,        \* committed rows of table conversations: id -> row
    messages,             \* committed rows of table messages: id -> row
    nextId,               \* next id the store hands out
    txConvs,              \* per request: conversation rows flushed, not committed
    txMsgs,               \* per request: message rows flushed or dirty, not committed
    pc,                   \* per request: position in its handler / generator
    caller,               \* per request: current_user.id
    prompt,               \* per request: the ChatPrompt received
    assistant_message_id, \* per request: id of the assistant row of the turn
    user_message_id,      \* per request: id of the user row of the turn
    conversation_id,      \* per request: id of the resolved conversation
    buffer,               \* per request: list of deltas received so far
    events,               \* per request: events yielded to the client, in order
    commit_task,          \* per request: "none" | "running" | "done" | "failed"
    gateway_calls,        \* per request: number of Model Gateway invocations
    gateway_failed,       \* per request: the gateway channel raised
    outcome,              \* per request: how the call / the generator ended
    handler,              \* per request: the endpoint called ("chat" | "chat_stream")
    response,             \* per request: the ChatCompletionResponse returned by chat
    bearer,               \* per request: the bearer token of the Authorization header
    sent,                 \* history: per request, the text deltas the gateway has sent
    users,                \* rows of table users by id; a deleted row keeps its place, marked deleted
    refresh_tokens,       \* rows of table refresh_tokens by id; a deleted row keeps its place, marked deleted
    now,                  \* the clock (datetime.utcnow(), time.time()), in ticks
    apc,                  \* per auth session: position in its service call
    local,                \* per auth session: the local variables of the call
    result,               \* what the auth call that ended last returned or raised, what its endpoint answered, and to whom
    rotated_from,         \* history: per refresh_tokens row, the row whose rotation inserted it
    refreshed,            \* history: per refresh_tokens row, the refresh calls that returned after revoking it
    last_call,            \* history: the operation and the token of the last step, if it began a refresh or was a logout
    user_cache            \* _user_cache: subject -> (user, the time.time() of the lookup)

chatVars == <<conversations, messages, nextId, txConvs, txMsgs, pc, caller, prompt,
              assistant_message_id, user_message_id, conversation_id, buffer,
              events, commit_task, gateway_calls, gateway_failed, outcome,
              handler, bearer, response, sent>>

authVars == <<users, refresh_tokens, now, apc, local, result, rotated_from,
              refreshed, last_call, user_cache>>

vars == <<chatVars, authVars>>

(* ------------------------------------------------------------------ *)
(* String helpers                                                      *)
(* ------------------------------------------------------------------ *)

\* "".join(buffer)
RECURSIVE Join(_)
Join(parts) ==
    IF parts = <<>> THEN <<>> ELSE Head(parts) \o Join(Tail(parts))

\* s.strip() is non-empty: some character is not whitespace
StripNonEmpty(s) == \E i \in 1..Len(s) : s[i] \notin Whitespace

\* len(s.split()): the number of maximal runs of non-whitespace characters
RECURSIVE SplitCount(_)
SplitCount(s) ==
    IF s = <<>> THEN 0
    ELSE IF Head(s) \in Whitespace THEN SplitCount(Tail(s))
    ELSE IF Len(s) = 1 \/ s[2] \in Whitespace THEN 1 + SplitCount(Tail(s))
    ELSE SplitCount(Tail(s))

\* s[:n]
Take(s, n) == SubSeq(s, 1, IF Len(s) < n THEN Len(s) ELSE n)

\* s.strip(): leading and trailing whitespace removed
RECURSIVE LStrip(_)
LStrip(s) ==
    IF s # <<>> /\ Head(s) \in Whitespace THEN LStrip(Tail(s)) ELSE s

RECURSIVE RStrip(_)
RStrip(s) ==
    IF s # <<>> /\ s[Len(s)] \in Whitespace
    THEN RStrip(SubSeq(s, 1, Len(s) - 1)) ELSE s

Strip(s) == RStrip(LStrip(s))

(* ------------------------------------------------------------------ *)
(* Rows, events and outcomes                                           *)
(* ------------------------------------------------------------------ *)

\* mutant of NewConversation: the title is the whole text
NewConversation_WholeText(uid, text) == [user_id |-> uid, title |-> text]

\* Conversation(user_id=current_user.id, title=title)
NewConversation(uid, text) ==
    [user_id |-> uid, title |-> Take(text, TITLE_LEN)]

\* mutant of UserMessage: the user message starts as pending
UserMessage_Pending(cid, p, uid) ==
    [conversation_id |-> cid,
     author_id |-> IF p.author_id # NoAuthor THEN p.author_id ELSE uid,
     role |-> "user", content |-> p.text, tokens |-> 0, status |-> "pending"]

\* mutant of UserMessage: the author is the caller whatever the prompt says
UserMessage_AuthorIsCaller(cid, p, uid) ==
    [conversation_id |-> cid, author_id |-> uid,
     role |-> "user", content |-> p.text, tokens |-> 0, status |-> "completed"]

\* Message(role="user", status="completed", author_id=prompt.author_id or current_user.id)
UserMessage(cid, p, uid) ==
    [conversation_id |-> cid,
     author_id |-> IF p.author_id # NoAuthor THEN p.author_id ELSE uid,
     role |-> "user", content |-> p.text, tokens |-> 0, status |-> "completed"]

\* mutant of PendingAssistantMessage: the row is given a user as author
PendingAssistantMessage_Authored(cid) ==
    [conversation_id |-> cid, author_id |-> CHOOSE u \in Users : TRUE,
     role |-> "assistant", content |-> <<>>, tokens |-> 0, status |-> "pending"]

\* Message(role="assistant", content="", status="pending")
PendingAssistantMessage(cid) ==
    [conversation_id |-> cid, author_id |-> NoAuthor, role |-> "assistant",
     content |-> <<>>, tokens |-> 0, status |-> "pending"]

\* mutant of ReplyAssistantMessage: the token count is the number of characters
ReplyAssistantMessage_CountsCharacters(cid, reply_text) ==
    [conversation_id |-> cid, author_id |-> NoAuthor, role |-> "assistant",
     content |-> reply_text, tokens |-> Len(reply_text), status |-> "completed"]

\* Message(role="assistant", content=reply_text, status="completed", tokens=len(reply_text.split()))
ReplyAssistantMessage(cid, reply_text) ==
    [conversation_id |-> cid, author_id |-> NoAuthor, role |-> "assistant",
     content |-> reply_text, tokens |-> SplitCount(reply_text),
     status |-> "completed"]

\* the first event of a stream: "event: snapshot"
SnapshotEvent(cid, umid, amid) ==
    [type |-> "snapshot", conversation_id |-> cid, request_message_id |-> umid,
     message_id |-> amid, delta |-> <<>>, done |-> FALSE]

\* one "data:" event per text delta: chunk_template with the delta
DeltaEvent(cid, amid, d) ==
    [type |-> "data", conversation_id |-> cid, request_message_id |-> NoId,
     message_id |-> amid, delta |-> d, done |-> FALSE]

\* ChatStreamDelta(delta="", done=True)
DoneEvent(cid, amid) ==
    [type |-> "data", conversation_id |-> cid, request_message_id |-> NoId,
     message_id |-> amid, delta |-> <<>>, done |-> TRUE]

Running == [kind |-> "running", status |-> 0, detail |-> ""]

HttpError(code, text) == [kind |-> "http_error", status |-> code, detail |-> text]

\* HTTPException(status_code=404, detail="Conversation not found")
ConversationNotFound == HttpError(404, "Conversation not found")

\* HTTPException(status_code=400, detail="Message text cannot be empty")
EmptyText == HttpError(400, "Message text cannot be empty")

\* the handler returned its response / the generator ran to its end
Returned == [kind |-> "returned", status |-> 200, detail |-> ""]

\* an exception left the handler / the generator
Raised(what) == [kind |-> "raised", status |-> 500, detail |-> what]

\* the generator was closed or its task cancelled by the client's disconnect
Cancelled == [kind |-> "cancelled", status |-> 0, detail |-> ""]

EmptyTable == <<>>

\* ChatCompletionResponse(conversation, request_message, response_message)
ChatCompletionResponse(conversation, request_message, response_message) ==
    <<conversation, request_message, response_message>>

\* no response body (the call has not returned one)
NoResponse == <<>>

(* ------------------------------------------------------------------ *)
(* The store as one request's session sees it                          *)
(* ------------------------------------------------------------------ *)

\* rows of `tx` written over the committed rows of `table` (COMMIT)
Merge(tx, table) == tx @@ table

\* mutant of ConversationMatches: the owner is not compared
ConversationMatches_AnyOwner(cid, uid) == cid \in DOMAIN conversations

\* select(Conversation).where(id == prompt.conversation_id).where(user_id == current_user.id)
\* returns a row: the session is new, so it sees the committed rows
ConversationMatches(cid, uid) ==
    /\ cid \in DOMAIN conversations
    /\ conversations[cid].user_id = uid

\* db.get(Message, id) by request r: the row of its own transaction, else the committed row
MessageVisible(r, id) == id \in DOMAIN txMsgs[r] \/ id \in DOMAIN messages

MessageRow(r, id) ==
    IF id \in DOMAIN txMsgs[r] THEN txMsgs[r][id] ELSE messages[id]

\* conversation ids a client can present: none, a made-up one, or one it has seen
\* (a committed one, or one a snapshot event announced before its commit)
PromptConversationIds ==
    {NoId, GhostId} \cup DOMAIN conversations
        \cup UNION {DOMAIN txConvs[q] : q \in Requests}

\* the request bodies a client can send (ChatPrompt)
Prompts ==
    [conversation_id : PromptConversationIds,
     author_id : Users \cup {NoAuthor},
     text : Texts]

\* prompt.get_last_message_content(): the text of the prompt
get_last_message_content(p) == p.text

(* ------------------------------------------------------------------ *)
(* Tokens                                                              *)
(* ------------------------------------------------------------------ *)

\* settings.refresh_token_expire_days
REFRESH_TOKEN_EXPIRE_DAYS == 7

\* settings.access_token_expire_minutes
ACCESS_TOKEN_EXPIRE_MINUTES == 30

\* timedelta(days=settings.refresh_token_expire_days), in ticks
RefreshLifetime == REFRESH_TOKEN_EXPIRE_DAYS * 24 * 60 * 60 * TicksPerSecond

\* timedelta(minutes=settings.access_token_expire_minutes), in ticks
AccessLifetime == ACCESS_TOKEN_EXPIRE_MINUTES * 60 * TicksPerSecond

\* the instant t as a JWT NumericDate: whole seconds, the fraction dropped
WholeSecond(t) == (t \div TicksPerSecond) * TicksPerSecond

\* hashlib.sha256(token.encode()).hexdigest(): one digest per token, never the token
hash_token(token) == <<"sha256", token>>

\* bcrypt.hashpw(password, salt)
hash_password(password) == <<"bcrypt", password>>

\* bcrypt.checkpw(plain_password, hashed_password)
verify_password(plain_password, hashed_password) ==
    hashed_password = <<"bcrypt", plain_password>>

\* create_refresh_token(data={"sub": user.id}): the signed claims (subject, type and
\* expiry in whole seconds); two tokens with the same claims are the same string, so
\* two tokens issued for one user within the same second are equal
create_refresh_token(uid, t) ==
    [type |-> "refresh", sub |-> uid, email |-> "",
     exp |-> WholeSecond(t + RefreshLifetime), signed |-> TRUE]

\* create_access_token(data={"sub": user.id, "email": user.email})
create_access_token(uid, email, t) ==
    [type |-> "access", sub |-> uid, email |-> email,
     exp |-> WholeSecond(t + AccessLifetime), signed |-> TRUE]

\* a string that is no token signed by this server
ForgedToken ==
    [type |-> "refresh", sub |-> 0, email |-> "", exp |-> 0, signed |-> FALSE]

\* decode_token(token) returns the claims: the signature is good and exp, compared
\* with the clock in whole seconds, has not passed
decode_token_ok(token, t) == token.signed /\ ~(token.exp < WholeSecond(t))

\* no Authorization header: OAuth2PasswordBearer has no token to hand over
NoToken == [type |-> "none", sub |-> 0, email |-> "", exp |-> 0, signed |-> FALSE]

\* mutant of AccessTokenAccepted: a refresh token passes as well
AccessTokenAccepted_RefreshToo(token, t) ==
    decode_token_ok(token, t) /\ token.type \in {"access", "refresh"}

\* mutant of AccessTokenAccepted: the type claim is not looked at
AccessTokenAccepted_AnyType(token, t) == decode_token_ok(token, t)

\* get_current_user up to the cache: decode_token(token) returns the claims, and
\* payload.get("type") == "access"
AccessTokenAccepted(token, t) ==
    /\ decode_token_ok(token, t)
    /\ token.type = "access"

\* what a client can send as bearer token to the chat endpoints: for each account a
\* good access token, an access token that has expired, an access token with a bad
\* signature and a good refresh token; or no token at all
BearerTokens ==
    {create_access_token(u, "", now) : u \in Users}
        \cup {create_access_token(u, "", now - AccessLifetime - TicksPerSecond) :
                  u \in Users}
        \cup {[create_access_token(u, "", now) EXCEPT !.signed = FALSE] : u \in Users}
        \cup {create_refresh_token(u, now) : u \in Users}
        \cup {NoToken}

\* HTTPException(401, "Could not validate credentials"): credentials_exception
Unauthorized == HttpError(401, "Could not validate credentials")

\* HTTPException(401, "Not authenticated"), raised by OAuth2PasswordBearer
NotAuthenticated == HttpError(401, "Not authenticated")

(* ------------------------------------------------------------------ *)
(* Initial state: empty store, no request received                     *)
(* ------------------------------------------------------------------ *)

InitChat ==
    /\ conversations = EmptyTable
    /\ messages = EmptyTable
    /\ nextId = 1
    /\ txConvs = [r \in Requests |-> EmptyTable]
    /\ txMsgs = [r \in Requests |-> EmptyTable]
    /\ pc = [r \in Requests |-> "idle"]
    /\ caller = [r \in Requests |-> NoId]
    /\ prompt = [r \in Requests |->
                    [conversation_id |-> NoId, author_id |-> NoAuthor, text |-> <<>>]]
    /\ assistant_message_id = [r \in Requests |-> NoId]
    /\ user_message_id = [r \in Requests |-> NoId]
    /\ conversation_id = [r \in Requests |-> NoId]
    /\ buffer = [r \in Requests |-> <<>>]
    /\ events = [r \in Requests |-> <<>>]
    /\ commit_task = [r \in Requests |-> "none"]
    /\ gateway_calls = [r \in Requests |-> 0]
    /\ gateway_failed = [r \in Requests |-> FALSE]
    /\ outcome = [r \in Requests |-> Running]
    /\ handler = [r \in Requests |-> "none"]
    /\ bearer = [r \in Requests |-> NoToken]
    /\ response = [r \in Requests |-> NoResponse]
    /\ sent = [r \in Requests |-> <<>>]

(* ------------------------------------------------------------------ *)
(* Handlers                                                            *)
(* ------------------------------------------------------------------ *)

streamVars == <<buffer, events, commit_task, gateway_failed, sent>>

\* the request is refused with an HTTPException before anything is written
Reject(r, h, tok, u, p, err) ==
    /\ pc' = [pc EXCEPT ![r] = "closed"]
    /\ handler' = [handler EXCEPT ![r] = h]
    /\ bearer' = [bearer EXCEPT ![r] = tok]
    /\ caller' = [caller EXCEPT ![r] = u]
    /\ prompt' = [prompt EXCEPT ![r] = p]
    /\ outcome' = [outcome EXCEPT ![r] = err]
    /\ UNCHANGED <<conversations, messages, nextId, txConvs, txMsgs,
                   assistant_message_id, user_message_id, conversation_id,
                   gateway_calls, response, streamVars, authVars>>

\* _resolve_conversation fails: the id is given and no row of the caller has it
ResolveFails(p, u) ==
    /\ p.conversation_id # NoId
    /\ ~ConversationMatches(p.conversation_id, u)

\* the id _resolve_conversation returns, and the row it adds when none was given
ResolvedId(p) == IF p.conversation_id # NoId THEN p.conversation_id ELSE nextId

ResolvedTx(p, u) ==
    IF p.conversation_id # NoId THEN EmptyTable
    ELSE nextId :> NewConversation(u, get_last_message_content(p))

\* the next free id after _resolve_conversation
AfterResolve(p) == IF p.conversation_id # NoId THEN nextId ELSE nextId + 1

\* POST /chat/stream up to the return of the StreamingResponse: validation,
\* _resolve_conversation, both rows added and flushed (not committed)
chat_stream(r) ==
    /\ pc[r] = "idle"
    /\ \E tok \in BearerTokens, p \in Prompts :
        IF tok = NoToken
        THEN Reject(r, "chat_stream", tok, NoId, prompt[r], NotAuthenticated)
        ELSE IF ~AccessTokenAccepted(tok, now)
        THEN Reject(r, "chat_stream", tok, NoId, prompt[r], Unauthorized)
        ELSE LET u == tok.sub IN
        IF ~StripNonEmpty(get_last_message_content(p))
        THEN Reject(r, "chat_stream", tok, u, p, EmptyText)
        ELSE IF ResolveFails(p, u)
        THEN Reject(r, "chat_stream", tok, u, p, ConversationNotFound)
        ELSE
            LET cid == ResolvedId(p)
                umid == AfterResolve(p)
                amid == AfterResolve(p) + 1
            IN  /\ caller' = [caller EXCEPT ![r] = u]
                /\ bearer' = [bearer EXCEPT ![r] = tok]
                /\ handler' = [handler EXCEPT ![r] = "chat_stream"]
                /\ prompt' = [prompt EXCEPT ![r] = p]
                /\ txConvs' = [txConvs EXCEPT ![r] = ResolvedTx(p, u)]
                /\ txMsgs' = [txMsgs EXCEPT ![r] =
                       (umid :> UserMessage(cid, p, u))
                           @@ (amid :> PendingAssistantMessage(cid))]
                /\ nextId' = amid + 1
                /\ conversation_id' = [conversation_id EXCEPT ![r] = cid]
                /\ user_message_id' = [user_message_id EXCEPT ![r] = umid]
                /\ assistant_message_id' = [assistant_message_id EXCEPT ![r] = amid]
                /\ pc' = [pc EXCEPT ![r] = "gen_created"]
                /\ UNCHANGED <<conversations, messages, gateway_calls, outcome,
                               response, streamVars, authVars>>

\* what changes of a request when only its generator moves
genFrame == <<nextId, caller, prompt, assistant_message_id, user_message_id,
              conversation_id, handler, bearer, response, authVars>>

\* mutant of stream_yield_snapshot: the commit task is created before the yield
stream_yield_snapshot_AfterCommitStart(r) ==
    /\ pc[r] = "gen_created"
    /\ commit_task' = [commit_task EXCEPT ![r] = "running"]
    /\ events' = [events EXCEPT ![r] =
           <<SnapshotEvent(conversation_id[r], user_message_id[r],
                           assistant_message_id[r])>>]
    /\ pc' = [pc EXCEPT ![r] = "at_snapshot"]
    /\ UNCHANGED <<conversations, messages, txConvs, txMsgs, genFrame, sent, buffer,
                   gateway_calls, gateway_failed, outcome>>

\* yield f"event: snapshot ..." : the first thing the generator does, before any commit
stream_yield_snapshot(r) ==
    /\ pc[r] = "gen_created"
    /\ events' = [events EXCEPT ![r] =
           <<SnapshotEvent(conversation_id[r], user_message_id[r],
                           assistant_message_id[r])>>]
    /\ pc' = [pc EXCEPT ![r] = "at_snapshot"]
    /\ UNCHANGED <<conversations, messages, txConvs, txMsgs, genFrame, sent, buffer,
                   commit_task, gateway_calls, gateway_failed, outcome>>

\* the generator is resumed: commit_task = asyncio.create_task(db.commit()), then
\* Runner.run_streamed(...) opens the gateway channel
stream_open_gateway(r) ==
    /\ pc[r] = "at_snapshot"
    /\ commit_task' = [commit_task EXCEPT ![r] = "running"]
    /\ gateway_calls' = [gateway_calls EXCEPT ![r] = @ + 1]
    /\ pc' = [pc EXCEPT ![r] = "streaming"]
    /\ UNCHANGED <<conversations, messages, txConvs, txMsgs, genFrame, sent, buffer,
                   events, gateway_failed, outcome>>

\* the background task's db.commit() succeeds: the flushed rows become visible to all
commit_task_completes(r) ==
    /\ commit_task[r] = "running"
    /\ conversations' = Merge(txConvs[r], conversations)
    /\ messages' = Merge(txMsgs[r], messages)
    /\ txConvs' = [txConvs EXCEPT ![r] = EmptyTable]
    /\ txMsgs' = [txMsgs EXCEPT ![r] = EmptyTable]
    /\ commit_task' = [commit_task EXCEPT ![r] = "done"]
    /\ UNCHANGED <<pc, genFrame, sent, buffer, events, gateway_calls, gateway_failed,
                   outcome>>

\* the background task's db.commit() raises: the transaction is rolled back
commit_task_fails(r) ==
    /\ commit_task[r] = "running"
    /\ txConvs' = [txConvs EXCEPT ![r] = EmptyTable]
    /\ txMsgs' = [txMsgs EXCEPT ![r] = EmptyTable]
    /\ commit_task' = [commit_task EXCEPT ![r] = "failed"]
    /\ UNCHANGED <<conversations, messages, pc, genFrame, sent, buffer, events,
                   gateway_calls, gateway_failed, outcome>>

\* mutant of AppendDelta: the delta is put in front
AppendDelta_Prepends(buf, d) == <<d>> \o buf

\* buffer.append(delta)
AppendDelta(buf, d) == Append(buf, d)

\* mutant of stream_delta: the stored assistant message is written with every delta
stream_delta_WritesThrough(r) ==
    /\ pc[r] = "streaming"
    /\ Len(buffer[r]) < MaxDeltas
    /\ \E d \in DeltaSet :
        /\ sent' = [sent EXCEPT ![r] = Append(@, d)]
        /\ buffer' = [buffer EXCEPT ![r] = AppendDelta(@, d)]
        /\ events' = [events EXCEPT ![r] =
               Append(@, DeltaEvent(conversation_id[r], assistant_message_id[r], d))]
        /\ messages' = IF assistant_message_id[r] \in DOMAIN messages
                       THEN [messages EXCEPT ![assistant_message_id[r]].content =
                                Join(Append(buffer[r], d))]
                       ELSE messages
    /\ UNCHANGED <<conversations, txConvs, txMsgs, pc, genFrame,
                   commit_task, gateway_calls, gateway_failed, outcome>>

\* a non-empty text delta arrives: buffer.append(delta); yield the data event
stream_delta(r) ==
    /\ pc[r] = "streaming"
    /\ Len(buffer[r]) < MaxDeltas
    /\ \E d \in DeltaSet :
        /\ sent' = [sent EXCEPT ![r] = Append(@, d)]
        /\ buffer' = [buffer EXCEPT ![r] = AppendDelta(@, d)]
        /\ events' = [events EXCEPT ![r] =
               Append(@, DeltaEvent(conversation_id[r], assistant_message_id[r], d))]
    /\ UNCHANGED <<conversations, messages, txConvs, txMsgs, pc, genFrame,
                   commit_task, gateway_calls, gateway_failed, outcome>>

\* an event that is no text delta, or a delta that is empty: continue
stream_skip_event(r) ==
    /\ pc[r] = "streaming"
    /\ UNCHANGED vars

\* stream.stream_events() is exhausted
gateway_ends(r) ==
    /\ pc[r] = "streaming"
    /\ pc' = [pc EXCEPT ![r] = "ok_join"]
    /\ UNCHANGED <<conversations, messages, txConvs, txMsgs, genFrame, sent, buffer,
                   events, commit_task, gateway_calls, gateway_failed, outcome>>

\* the gateway raises an Exception (opening the channel or between events)
gateway_raises(r) ==
    /\ pc[r] = "streaming"
    /\ pc' = [pc EXCEPT ![r] = "fail_join"]
    /\ gateway_failed' = [gateway_failed EXCEPT ![r] = TRUE]
    /\ UNCHANGED <<conversations, messages, txConvs, txMsgs, genFrame, sent, buffer,
                   events, commit_task, gateway_calls, outcome>>

\* mutant of JoinReady: the final update does not wait for the commit task
JoinReady_NoWait(r) == TRUE

\* if commit_task: try: await commit_task / except Exception: pass
JoinReady(r) == commit_task[r] \in {"none", "done", "failed"}

stream_join_commit(r) ==
    /\ pc[r] \in {"ok_join", "fail_join"}
    /\ JoinReady(r)
    /\ pc' = [pc EXCEPT ![r] = IF pc[r] = "ok_join" THEN "ok_update" ELSE "fail_update"]
    /\ UNCHANGED <<conversations, messages, txConvs, txMsgs, genFrame, sent, buffer,
                   events, commit_task, gateway_calls, gateway_failed, outcome>>

\* mutant of CompletedUpdate: the token count is not set
CompletedUpdate_NoTokens(row, buf) ==
    [row EXCEPT !.content = Join(buf), !.status = "completed"]

\* assistant_msg.content = "".join(buffer); status = completed; tokens = len(content.split())
CompletedUpdate(row, buf) ==
    [row EXCEPT !.content = Join(buf), !.status = "completed",
                !.tokens = SplitCount(Join(buf))]

\* mutant of FailedUpdate: the status is left as it was
FailedUpdate_KeepsStatus(row, buf) ==
    [row EXCEPT !.content = Join(buf)]

\* mutant of FailedUpdate: the buffered content is discarded
FailedUpdate_DropsContent(row, buf) ==
    [row EXCEPT !.status = "failed"]

\* assistant_msg.status = failed; assistant_msg.content = "".join(buffer)
FailedUpdate(row, buf) ==
    [row EXCEPT !.status = "failed", !.content = Join(buf)]

FinalRow(r) ==
    IF pc[r] = "ok_update"
    THEN CompletedUpdate(MessageRow(r, assistant_message_id[r]), buffer[r])
    ELSE FailedUpdate(MessageRow(r, assistant_message_id[r]), buffer[r])

\* assistant_msg = await db.get(Message, id); if assistant_msg: ...; await db.commit()
\* mutant of stream_final_update: the final write sets the content of every assistant
\* message of the conversation
stream_final_update_WholeConversation(r) ==
    /\ pc[r] \in {"ok_update", "fail_update"}
    /\ IF MessageVisible(r, assistant_message_id[r])
       THEN /\ messages' =
                   LET merged == Merge(assistant_message_id[r] :> FinalRow(r),
                                       Merge(txMsgs[r], messages))
                   IN  [id \in DOMAIN merged |->
                           IF /\ merged[id].conversation_id = conversation_id[r]
                              /\ merged[id].role = "assistant"
                           THEN [merged[id] EXCEPT !.content = FinalRow(r).content]
                           ELSE merged[id]]
            /\ conversations' = Merge(txConvs[r], conversations)
            /\ txConvs' = [txConvs EXCEPT ![r] = EmptyTable]
            /\ txMsgs' = [txMsgs EXCEPT ![r] = EmptyTable]
       ELSE UNCHANGED <<conversations, messages, txConvs, txMsgs>>
    /\ pc' = [pc EXCEPT ![r] = IF pc[r] = "ok_update" THEN "ok_done" ELSE "fail_done"]
    /\ UNCHANGED <<genFrame, sent, buffer, events, commit_task, gateway_calls,
                   gateway_failed, outcome>>

stream_final_update(r) ==
    /\ pc[r] \in {"ok_update", "fail_update"}
    /\ IF MessageVisible(r, assistant_message_id[r])
       THEN /\ messages' = Merge(assistant_message_id[r] :> FinalRow(r),
                                 Merge(txMsgs[r], messages))
            /\ conversations' = Merge(txConvs[r], conversations)
            /\ txConvs' = [txConvs EXCEPT ![r] = EmptyTable]
            /\ txMsgs' = [txMsgs EXCEPT ![r] = EmptyTable]
       ELSE UNCHANGED <<conversations, messages, txConvs, txMsgs>>
    /\ pc' = [pc EXCEPT ![r] = IF pc[r] = "ok_update" THEN "ok_done" ELSE "fail_done"]
    /\ UNCHANGED <<genFrame, sent, buffer, events, commit_task, gateway_calls,
                   gateway_failed, outcome>>

\* db.get or the final db.commit() raises: the exception leaves the generator
stream_final_store_error(r) ==
    /\ pc[r] \in {"ok_update", "fail_update"}
    /\ txConvs' = [txConvs EXCEPT ![r] = EmptyTable]
    /\ txMsgs' = [txMsgs EXCEPT ![r] = EmptyTable]
    /\ pc' = [pc EXCEPT ![r] = "closed"]
    /\ outcome' = [outcome EXCEPT ![r] = Raised("store")]
    /\ UNCHANGED <<conversations, messages, genFrame, sent, buffer, events, commit_task,
                   gateway_calls, gateway_failed>>

\* mutant of stream_yield_done: the failure path re-raises without the done chunk
stream_yield_done_OnlyOnSuccess(r) ==
    /\ pc[r] \in {"ok_done", "fail_done"}
    /\ IF pc[r] = "ok_done"
       THEN /\ events' = [events EXCEPT ![r] =
                   Append(@, DoneEvent(conversation_id[r], assistant_message_id[r]))]
            /\ pc' = [pc EXCEPT ![r] = "closed"]
            /\ outcome' = [outcome EXCEPT ![r] = Returned]
       ELSE /\ pc' = [pc EXCEPT ![r] = "fail_raise"]
            /\ UNCHANGED <<events, outcome>>
    /\ UNCHANGED <<conversations, messages, txConvs, txMsgs, genFrame, sent, buffer,
                   commit_task, gateway_calls, gateway_failed>>

\* yield the done chunk; on the success path the generator then ends
stream_yield_done(r) ==
    /\ pc[r] \in {"ok_done", "fail_done"}
    /\ events' = [events EXCEPT ![r] =
           Append(@, DoneEvent(conversation_id[r], assistant_message_id[r]))]
    /\ IF pc[r] = "ok_done"
       THEN /\ pc' = [pc EXCEPT ![r] = "closed"]
            /\ outcome' = [outcome EXCEPT ![r] = Returned]
       ELSE /\ pc' = [pc EXCEPT ![r] = "fail_raise"]
            /\ UNCHANGED outcome
    /\ UNCHANGED <<conversations, messages, txConvs, txMsgs, genFrame, sent, buffer,
                   commit_task, gateway_calls, gateway_failed>>

\* raise: the gateway's exception leaves the generator after the done chunk
stream_reraise(r) ==
    /\ pc[r] = "fail_raise"
    /\ pc' = [pc EXCEPT ![r] = "closed"]
    /\ outcome' = [outcome EXCEPT ![r] = Raised("gateway")]
    /\ UNCHANGED <<conversations, messages, txConvs, txMsgs, genFrame, sent, buffer,
                   events, commit_task, gateway_calls, gateway_failed>>

\* where the generator is suspended (a yield or an await) between the snapshot and
\* the done event
BeforeDone == {"at_snapshot", "streaming", "ok_join", "fail_join",
               "ok_update", "fail_update"}

\* the client disconnects: GeneratorExit / CancelledError is raised in the generator
\* where it is suspended; both are BaseException, which `except Exception` lets pass.
\* Rows not handed to the commit task are rolled back with the session.
client_disconnects(r) ==
    /\ pc[r] \in BeforeDone
    /\ pc' = [pc EXCEPT ![r] = "closed"]
    /\ outcome' = [outcome EXCEPT ![r] = Cancelled]
    /\ IF commit_task[r] = "running"
       THEN UNCHANGED <<txConvs, txMsgs>>
       ELSE /\ txConvs' = [txConvs EXCEPT ![r] = EmptyTable]
            /\ txMsgs' = [txMsgs EXCEPT ![r] = EmptyTable]
    /\ UNCHANGED <<conversations, messages, genFrame, sent, buffer, events, commit_task,
                   gateway_calls, gateway_failed>>

(* ------------------------------------------------------------------ *)
(* Synchronous chat                                                    *)
(* ------------------------------------------------------------------ *)

\* result.final_output the gateway can reply with ("" stands for None)
Replies == {<<" ", "o", " ", "k">>, <<>>}

\* POST /chat up to the gateway call: validation, _resolve_conversation,
\* the user message added and flushed
chat(r) ==
    /\ pc[r] = "idle"
    /\ \E tok \in BearerTokens, p \in Prompts :
        IF tok = NoToken
        THEN Reject(r, "chat", tok, NoId, prompt[r], NotAuthenticated)
        ELSE IF ~AccessTokenAccepted(tok, now)
        THEN Reject(r, "chat", tok, NoId, prompt[r], Unauthorized)
        ELSE LET u == tok.sub IN
        IF ~StripNonEmpty(get_last_message_content(p))
        THEN Reject(r, "chat", tok, u, p, EmptyText)
        ELSE IF ResolveFails(p, u)
        THEN Reject(r, "chat", tok, u, p, ConversationNotFound)
        ELSE
            LET cid == ResolvedId(p)
                umid == AfterResolve(p)
            IN  /\ caller' = [caller EXCEPT ![r] = u]
                /\ bearer' = [bearer EXCEPT ![r] = tok]
                /\ handler' = [handler EXCEPT ![r] = "chat"]
                /\ prompt' = [prompt EXCEPT ![r] = p]
                /\ txConvs' = [txConvs EXCEPT ![r] = ResolvedTx(p, u)]
                /\ txMsgs' = [txMsgs EXCEPT ![r] = umid :> UserMessage(cid, p, u)]
                /\ nextId' = umid + 1
                /\ conversation_id' = [conversation_id EXCEPT ![r] = cid]
                /\ user_message_id' = [user_message_id EXCEPT ![r] = umid]
                /\ gateway_calls' = [gateway_calls EXCEPT ![r] = @ + 1]
                /\ pc' = [pc EXCEPT ![r] = "sync_gateway"]
                /\ UNCHANGED <<conversations, messages, assistant_message_id,
                               outcome, response, streamVars, authVars>>

\* Runner.run returns: the assistant message is added and everything committed
chat_reply(r) ==
    /\ pc[r] = "sync_gateway"
    /\ \E out \in Replies :
        LET amid == nextId
            row == ReplyAssistantMessage(conversation_id[r], Strip(out))
        IN  /\ messages' = Merge(amid :> row, Merge(txMsgs[r], messages))
            /\ conversations' = Merge(txConvs[r], conversations)
            /\ assistant_message_id' = [assistant_message_id EXCEPT ![r] = amid]
            /\ nextId' = amid + 1
            /\ response' = [response EXCEPT ![r] =
                   ChatCompletionResponse(
                       Merge(txConvs[r], conversations)[conversation_id[r]],
                       MessageRow(r, user_message_id[r]), row)]
    /\ txConvs' = [txConvs EXCEPT ![r] = EmptyTable]
    /\ txMsgs' = [txMsgs EXCEPT ![r] = EmptyTable]
    /\ pc' = [pc EXCEPT ![r] = "closed"]
    /\ outcome' = [outcome EXCEPT ![r] = Returned]
    /\ UNCHANGED <<caller, prompt, user_message_id, conversation_id,
                   gateway_calls, handler, bearer, streamVars, authVars>>

\* mutant of chat_gateway_fails: an empty assistant turn is committed before the raise
chat_gateway_fails_PersistsTurn(r) ==
    /\ pc[r] = "sync_gateway"
    /\ messages' = Merge(nextId :> ReplyAssistantMessage(conversation_id[r], <<>>),
                         Merge(txMsgs[r], messages))
    /\ conversations' = Merge(txConvs[r], conversations)
    /\ assistant_message_id' = [assistant_message_id EXCEPT ![r] = nextId]
    /\ nextId' = nextId + 1
    /\ txConvs' = [txConvs EXCEPT ![r] = EmptyTable]
    /\ txMsgs' = [txMsgs EXCEPT ![r] = EmptyTable]
    /\ pc' = [pc EXCEPT ![r] = "closed"]
    /\ outcome' = [outcome EXCEPT ![r] = Raised("gateway")]
    /\ UNCHANGED <<caller, prompt, user_message_id, conversation_id,
                   gateway_calls, handler, bearer, response, streamVars, authVars>>

\* mutant of chat_gateway_fails: the rows flushed before the gateway call are committed
\* when the exception leaves the handler
chat_gateway_fails_CommitsFlushed(r) ==
    /\ pc[r] = "sync_gateway"
    /\ messages' = Merge(txMsgs[r], messages)
    /\ conversations' = Merge(txConvs[r], conversations)
    /\ txConvs' = [txConvs EXCEPT ![r] = EmptyTable]
    /\ txMsgs' = [txMsgs EXCEPT ![r] = EmptyTable]
    /\ pc' = [pc EXCEPT ![r] = "closed"]
    /\ outcome' = [outcome EXCEPT ![r] = Raised("gateway")]
    /\ UNCHANGED <<nextId, caller, prompt,
                   assistant_message_id, user_message_id, conversation_id,
                   gateway_calls, handler, bearer, response, streamVars, authVars>>

\* Runner.run raises: the exception leaves the handler, the session is rolled back
chat_gateway_fails(r) ==
    /\ pc[r] = "sync_gateway"
    /\ txConvs' = [txConvs EXCEPT ![r] = EmptyTable]
    /\ txMsgs' = [txMsgs EXCEPT ![r] = EmptyTable]
    /\ pc' = [pc EXCEPT ![r] = "closed"]
    /\ outcome' = [outcome EXCEPT ![r] = Raised("gateway")]
    /\ UNCHANGED <<conversations, messages, nextId, caller, prompt,
                   assistant_message_id, user_message_id, conversation_id,
                   gateway_calls, handler, bearer, response, streamVars, authVars>>

(* ------------------------------------------------------------------ *)
(* Token service: values                                               *)
(* ------------------------------------------------------------------ *)

\* auth sessions: each runs one service call at a time on its own store session
Sessions == {"s1", "s2"}

\* the sessions that carry calls when the service handles one call at a time
SeqSessions == {"s1"}

Emails == {"a@example.com", "b@example.com"}

\* the password every account is registered with, and a wrong one
Password == "longenough1"

Passwords == {Password, "wrongpassword"}

\* TokenResponse(access_token, refresh_token, token_type="bearer")
TokenResponse(uid, email, t) ==
    [access_token |-> create_access_token(uid, email, t),
     refresh_token |-> create_refresh_token(uid, t)]

\* mutant of NewRefreshTokenRow: the hash stored is the hash of the access token
NewRefreshTokenRow_HashOfAccessToken(uid, t) ==
    [user_id |-> uid, token_hash |-> hash_token(create_access_token(uid, "", t)),
     expires_at |-> t + RefreshLifetime, revoked |-> FALSE, deleted |-> FALSE]

\* RefreshToken(user_id, token_hash, expires_at=utcnow() + timedelta(days=...), revoked=False)
NewRefreshTokenRow(uid, t) ==
    [user_id |-> uid, token_hash |-> hash_token(create_refresh_token(uid, t)),
     expires_at |-> t + RefreshLifetime, revoked |-> FALSE, deleted |-> FALSE]

\* the refresh tokens this server has issued so far (their holders can present them)
IssuedRefreshTokens ==
    {create_refresh_token(refresh_tokens[i].user_id,
                          refresh_tokens[i].expires_at - RefreshLifetime) :
        i \in DOMAIN refresh_tokens}

\* what a client can send as refresh_token
PresentableTokens ==
    IssuedRefreshTokens \cup {ForgedToken}
        \cup {create_access_token(i, users[i].email, now) : i \in DOMAIN users}

\* Python's None in a string column
None == ""

\* password_hash=None: the user has no password
NoPasswordHash == <<>>

NoLocal == [user_id |-> 0, token |-> ForgedToken, token_record |-> 0, new_record |-> 0,
            current_time |-> 0, email |-> "", oauth_id |-> None]

NoResult == [kind |-> "none", status |-> 0, detail |-> ""]

\* the last step was neither a logout_user call nor the start of a refresh call
NoCall == [op |-> "none", token |-> ForgedToken]

\* a TokenResponse returned to the caller
Tokens(pair) == [kind |-> "tokens", status |-> 200, detail |-> "", tokens |-> pair]

\* {"message": "Successfully logged out"}
LoggedOut == [kind |-> "message", status |-> 200, detail |-> "Successfully logged out"]

InitAuth ==
    /\ users = <<>>
    /\ refresh_tokens = <<>>
    /\ now = 0
    /\ apc = [s \in Sessions |-> "idle"]
    /\ local = [s \in Sessions |-> NoLocal]
    /\ result = [session |-> "none", response |-> NoResult, http |-> NoResult]
    /\ rotated_from = <<>>
    /\ refreshed = <<>>
    /\ last_call = NoCall
    /\ user_cache = <<>>

Init == InitChat /\ InitAuth

(* ------------------------------------------------------------------ *)
(* Token service: operations                                           *)
(* ------------------------------------------------------------------ *)

\* rows that calls in progress are still going to insert
PendingInserts ==
    Cardinality({s \in Sessions :
        apc[s] \in {"register_commit", "register_tokens", "refresh_generate",
                    "oauth_link", "oauth_create", "oauth_tokens"}})

RoomForRecord == Len(refresh_tokens) + PendingInserts < MaxRecords

\* the User object that db.get(User, id) loads
UserSnapshot(id) == [id |-> id, email |-> users[id].email, name |-> users[id].name]

\* mutant of UsersByEmail: the select finds no row
UsersByEmail_FindsNone(email) == {}

\* select(User).where(User.email == email): the ids of the matching rows
UsersByEmail(email) == {i \in DOMAIN users : users[i].email = email /\ ~users[i].deleted}

\* db.get(User, id) finds a row
UserExists(id) == id \in DOMAIN users /\ ~users[id].deleted

\* the call ends: the service method returned or raised `res`, the endpoint answers
\* the client with `answer`, and the session is free again
Respond(s, res, answer) ==
    /\ apc' = [apc EXCEPT ![s] = "idle"]
    /\ local' = [local EXCEPT ![s] = NoLocal]
    /\ result' = [session |-> s, response |-> res, http |-> answer]

\* the call ends and the endpoint hands on what the service method returned or raised
Finish(s, res) == Respond(s, res, res)

\* _generate_tokens: db.add(refresh_token_record); await db.commit()
generate_tokens(uid, origin) ==
    /\ refresh_tokens' = Append(refresh_tokens, NewRefreshTokenRow(uid, now))
    /\ rotated_from' = Append(rotated_from, origin)
    /\ refreshed' = Append(refreshed, 0)

\* User(email=..., password_hash=hash_password(password), is_email_verified=False);
\* changed_at is the instant of the row's last commit
NewUser(email, password) ==
    [email |-> email, password_hash |-> hash_password(password), name |-> None,
     oauth_provider |-> None, oauth_id |-> None, is_email_verified |-> FALSE,
     changed_at |-> now, deleted |-> FALSE]

\* the commit of a users row violates UniqueConstraint("email"): IntegrityError, which
\* no handler of the call catches
EmailTaken == HttpError(500, "IntegrityError")

\* register_user: the select of the existing user
register_user(s) ==
    /\ apc[s] = "idle"
    /\ RoomForRecord
    /\ \E email \in Emails :
        /\ IF UsersByEmail(email) # {}
           THEN Finish(s, HttpError(400, "Email already registered"))
           ELSE /\ apc' = [apc EXCEPT ![s] = "register_commit"]
                /\ local' = [local EXCEPT ![s] = [NoLocal EXCEPT !.email = email]]
                /\ UNCHANGED result
        /\ last_call' = [op |-> "register", token |-> ForgedToken, email |-> email]
    /\ UNCHANGED <<users, refresh_tokens, now, rotated_from, refreshed, chatVars>>
    /\ UNCHANGED user_cache

\* register_user: db.add(new_user); await db.commit()
register_commit(s) ==
    /\ apc[s] = "register_commit"
    /\ IF UsersByEmail(local[s].email) # {}
       THEN /\ Finish(s, EmailTaken)
            /\ UNCHANGED users
       ELSE /\ users' = Append(users, NewUser(local[s].email, Password))
            /\ apc' = [apc EXCEPT ![s] = "register_tokens"]
            /\ local' = [local EXCEPT ![s].user_id = Len(users) + 1]
            /\ UNCHANGED result
    /\ UNCHANGED <<refresh_tokens, now, rotated_from, refreshed, chatVars>>
    /\ last_call' = NoCall
    /\ UNCHANGED user_cache

\* UserResponse(id=user.id, email=user.email, ...) with status 201
Registered(user) == [kind |-> "user", status |-> 201, detail |-> "", user |-> user]

\* register_user: tokens = await _generate_tokens(user_for_tokens, db); the service
\* returns (new_user, tokens) and the endpoint answers with the user alone
register_tokens(s) ==
    /\ apc[s] = "register_tokens"
    /\ generate_tokens(local[s].user_id, 0)
    /\ Respond(s, Tokens(TokenResponse(local[s].user_id,
                                       users[local[s].user_id].email, now)),
               Registered(UserSnapshot(local[s].user_id)))
    /\ UNCHANGED <<users, now, chatVars>>
    /\ last_call' = NoCall
    /\ UNCHANGED user_cache

\* login_user: the user by email, the password check, _generate_tokens
login_user(s) ==
    /\ apc[s] = "idle"
    /\ RoomForRecord
    /\ \E email \in Emails, password \in Passwords :
        IF \/ UsersByEmail(email) = {}
           \/ \A i \in UsersByEmail(email) :
                  \/ users[i].password_hash = NoPasswordHash
                  \/ ~verify_password(password, users[i].password_hash)
        THEN /\ Finish(s, HttpError(401, "Incorrect email or password"))
             /\ UNCHANGED <<refresh_tokens, rotated_from, refreshed>>
        ELSE \E i \in UsersByEmail(email) :
             /\ verify_password(password, users[i].password_hash)
             /\ generate_tokens(i, 0)
             /\ Finish(s, Tokens(TokenResponse(i, email, now)))
    /\ UNCHANGED <<users, now, chatVars>>
    /\ last_call' = NoCall
    /\ UNCHANGED user_cache

(* ------------------------------------------------------------------ *)
(* OAuth login and account updates                                     *)
(* ------------------------------------------------------------------ *)

\* mutant of UsersByOAuth: the select by provider id finds no row
UsersByOAuth_FindsNone(provider, provider_id) == {}

\* select(User).where(oauth_provider == provider, oauth_id == provider_id)
UsersByOAuth(provider, provider_id) ==
    {i \in DOMAIN users : /\ users[i].oauth_provider = provider
                          /\ users[i].oauth_id = provider_id
                          /\ ~users[i].deleted}

\* mutant of NewOAuthUser: the provider id is not stored
NewOAuthUser_NoIdentity(email, provider_id) ==
    [email |-> email, password_hash |-> NoPasswordHash, name |-> "Ann",
     oauth_provider |-> None, oauth_id |-> None, is_email_verified |-> FALSE,
     changed_at |-> now, deleted |-> FALSE]

\* User(email=..., name=..., is_email_verified=True, oauth_provider=..., oauth_id=...,
\*      is_oauth_user=True, password_hash=None)
NewOAuthUser(email, provider_id) ==
    [email |-> email, password_hash |-> NoPasswordHash, name |-> "Ann",
     oauth_provider |-> "google", oauth_id |-> provider_id,
     is_email_verified |-> TRUE, changed_at |-> now, deleted |-> FALSE]

\* get_or_create_oauth_user: the select by provider id, then the select by email; Google
\* reports one of two account ids
oauth_login(s) ==
    /\ apc[s] = "idle"
    /\ RoomForRecord
    /\ \E email \in Emails, provider_id \in {"g1", "g2"} :
        LET start == [NoLocal EXCEPT !.email = email, !.oauth_id = provider_id] IN
        IF UsersByOAuth("google", provider_id) # {}
        THEN \E i \in UsersByOAuth("google", provider_id) :
                 /\ apc' = [apc EXCEPT ![s] = "oauth_tokens"]
                 /\ local' = [local EXCEPT ![s] = [start EXCEPT !.user_id = i]]
        ELSE IF UsersByEmail(email) # {}
        THEN \E i \in UsersByEmail(email) :
                 /\ apc' = [apc EXCEPT ![s] = "oauth_link"]
                 /\ local' = [local EXCEPT ![s] = [start EXCEPT !.user_id = i]]
        ELSE /\ apc' = [apc EXCEPT ![s] = "oauth_create"]
             /\ local' = [local EXCEPT ![s] = start]
    /\ UNCHANGED <<users, refresh_tokens, now, result, rotated_from, refreshed,
                   user_cache, chatVars>>
    /\ last_call' = NoCall

\* get_or_create_oauth_user: the OAuth identity is linked to existing_user (whose name
\* is set when it has none), or new_user is added; await db.commit(); a commit the store
\* refuses ends in HTTPException(400, "OAuth authentication failed: ...")
oauth_commit(s) ==
    /\ apc[s] \in {"oauth_link", "oauth_create"}
    /\ IF apc[s] = "oauth_link"
       THEN IF ~UserExists(local[s].user_id)
            THEN /\ Finish(s, HttpError(400, "OAuth authentication failed"))
                 /\ UNCHANGED users
            ELSE /\ users' = [users EXCEPT
                       ![local[s].user_id].oauth_provider = "google",
                       ![local[s].user_id].oauth_id = local[s].oauth_id,
                       ![local[s].user_id].is_email_verified = TRUE,
                       ![local[s].user_id].name = IF @ = None THEN "Ann" ELSE @,
                       ![local[s].user_id].changed_at = now]
                 /\ apc' = [apc EXCEPT ![s] = "oauth_tokens"]
                 /\ UNCHANGED <<local, result>>
       ELSE IF UsersByEmail(local[s].email) # {}
            THEN /\ Finish(s, HttpError(400, "OAuth authentication failed"))
                 /\ UNCHANGED users
            ELSE /\ users' = Append(users, NewOAuthUser(local[s].email,
                                                        local[s].oauth_id))
                 /\ apc' = [apc EXCEPT ![s] = "oauth_tokens"]
                 /\ local' = [local EXCEPT ![s].user_id = Len(users) + 1]
                 /\ UNCHANGED result
    /\ UNCHANGED <<refresh_tokens, now, rotated_from, refreshed, user_cache, chatVars>>
    /\ last_call' = NoCall

\* tokens = await AuthService._generate_tokens(user, db); return user, tokens
oauth_tokens(s) ==
    /\ apc[s] = "oauth_tokens"
    /\ generate_tokens(local[s].user_id, 0)
    /\ Finish(s, Tokens(TokenResponse(local[s].user_id,
                                      users[local[s].user_id].email, now)))
    /\ UNCHANGED <<users, now, user_cache, chatVars>>
    /\ last_call' = NoCall

\* update_user / update_user_password return the user, or None
Updated(found) ==
    [kind |-> "updated", status |-> 0, detail |-> IF found THEN "user" ELSE "None"]

\* update_user_password: user.password_hash = hash_password(new_password); commit
update_user_password(s) ==
    /\ apc[s] = "idle"
    /\ \E user_id \in 1..MaxRecords, new_password \in Passwords :
        IF ~UserExists(user_id)
        THEN /\ Finish(s, Updated(FALSE))
             /\ UNCHANGED users
        ELSE /\ users' = [users EXCEPT ![user_id].password_hash =
                                             hash_password(new_password),
                                       ![user_id].changed_at = now]
             /\ Finish(s, Updated(TRUE))
    /\ UNCHANGED <<refresh_tokens, now, rotated_from, refreshed, user_cache, chatVars>>
    /\ last_call' = NoCall

\* update_user(name=...): setattr for the allowed fields whose value is not None; commit
update_user(s) ==
    /\ apc[s] = "idle"
    /\ \E user_id \in 1..MaxRecords, name \in {"Ann", None} :
        IF ~UserExists(user_id)
        THEN /\ Finish(s, Updated(FALSE))
             /\ UNCHANGED users
        ELSE /\ users' = [users EXCEPT ![user_id].name =
                                             IF name # None THEN name ELSE @,
                                       ![user_id].changed_at = now]
             /\ Finish(s, Updated(TRUE))
    /\ UNCHANGED <<refresh_tokens, now, rotated_from, refreshed, user_cache, chatVars>>
    /\ last_call' = NoCall

NextAccounts ==
    \E s \in Sessions :
        \/ register_user(s)
        \/ register_commit(s)
        \/ register_tokens(s)
        \/ oauth_login(s)
        \/ oauth_commit(s)
        \/ oauth_tokens(s)
        \/ update_user_password(s)
        \/ update_user(s)

\* the operations that write the users table, two sessions interleaving at every await
SpecAccounts == Init /\ [][NextAccounts]_vars

NextAccountsSeq ==
    \E s \in SeqSessions :
        \/ register_user(s)
        \/ register_commit(s)
        \/ register_tokens(s)
        \/ oauth_login(s)
        \/ oauth_commit(s)
        \/ oauth_tokens(s)
        \/ update_user_password(s)
        \/ update_user(s)

\* the operations that write the users table, one call at a time
SpecAccountsSeq == Init /\ [][NextAccountsSeq]_vars

\* mutant of ActiveRecords: revoked records are selected too
ActiveRecords_IgnoresRevoked(token) ==
    {i \in DOMAIN refresh_tokens :
        /\ refresh_tokens[i].token_hash = hash_token(token)
        /\ ~refresh_tokens[i].deleted}

\* select(RefreshToken).where(token_hash == ..., revoked == False): the matching row ids
ActiveRecords(token) ==
    {i \in DOMAIN refresh_tokens :
        /\ refresh_tokens[i].token_hash = hash_token(token)
        /\ refresh_tokens[i].revoked = FALSE
        /\ ~refresh_tokens[i].deleted}

\* refresh_access_token raises HTTPException(401, detail)
RefreshFails(s, token, detail) ==
    /\ Finish(s, HttpError(401, detail))
    /\ last_call' = [op |-> "refresh", token |-> token]

\* refresh_access_token up to `user = await db.get(User, ...)`: decode, type check,
\* lookup of the non-revoked record, expiry check, the user
refresh_lookup(s) ==
    /\ apc[s] = "idle"
    /\ RoomForRecord
    /\ \E token \in PresentableTokens :
        IF ~decode_token_ok(token, now)
        THEN RefreshFails(s, token, "Could not validate token")
        ELSE IF token.type # "refresh"
        THEN RefreshFails(s, token, "Invalid token type")
        ELSE IF ActiveRecords(token) = {}
        THEN RefreshFails(s, token, "Token not found or revoked")
        ELSE \E rec \in ActiveRecords(token) :
            IF refresh_tokens[rec].expires_at < now
            THEN RefreshFails(s, token, "Token expired")
            ELSE IF ~UserExists(token.sub)
            THEN RefreshFails(s, token, "User not found")
            ELSE /\ apc' = [apc EXCEPT ![s] = "refresh_generate"]
                 /\ local' = [local EXCEPT ![s] =
                        [NoLocal EXCEPT !.user_id = token.sub, !.token = token,
                                         !.token_record = rec]]
                 /\ last_call' = [op |-> "refresh_passed", token |-> token]
                 /\ UNCHANGED result
    /\ UNCHANGED <<users, refresh_tokens, now, rotated_from, refreshed, user_cache,
                   chatVars>>

\* refresh_access_token: new_tokens = await _generate_tokens(user, db)
refresh_generate(s) ==
    /\ apc[s] = "refresh_generate"
    /\ generate_tokens(local[s].user_id, local[s].token_record)
    /\ apc' = [apc EXCEPT ![s] = "refresh_revoke"]
    /\ local' = [local EXCEPT ![s].new_record = Len(refresh_tokens) + 1]
    /\ UNCHANGED <<users, now, result, chatVars>>
    /\ last_call' = NoCall
    /\ UNCHANGED user_cache

\* token_record.revoked = True
Revoke(table, rec) == [table EXCEPT ![rec].revoked = TRUE]

\* refresh_access_token: token_record.revoked = True; db.add; await db.commit();
\* return new_tokens (the pair made by refresh_generate)
refresh_revoke(s) ==
    /\ apc[s] = "refresh_revoke"
    /\ refresh_tokens' = Revoke(refresh_tokens, local[s].token_record)
    /\ refreshed' = [refreshed EXCEPT ![local[s].token_record] = @ + 1]
    /\ Finish(s, Tokens(TokenResponse(local[s].user_id,
                users[local[s].user_id].email,
                refresh_tokens[local[s].new_record].expires_at
                    - RefreshLifetime)))
    /\ UNCHANGED <<users, now, rotated_from, chatVars>>
    /\ last_call' = NoCall
    /\ UNCHANGED user_cache

\* select(RefreshToken).where(token_hash == ...): the matching row ids
RecordsByHash(token) ==
    {i \in DOMAIN refresh_tokens :
        /\ refresh_tokens[i].token_hash = hash_token(token)
        /\ ~refresh_tokens[i].deleted}

\* the access tokens this server has issued so far, one with each refresh token
IssuedAccessTokens ==
    {create_access_token(refresh_tokens[i].user_id,
                         users[refresh_tokens[i].user_id].email,
                         refresh_tokens[i].expires_at - RefreshLifetime) :
        i \in DOMAIN refresh_tokens}

\* what a client can send as bearer token: a token it was issued, or one it made up
PresentableBearers == IssuedAccessTokens \cup IssuedRefreshTokens \cup {ForgedToken}

\* mutant of RecordsOf: only the records of the authenticated caller are looked at
RecordsOf_OwnedByCaller(token, current_user) ==
    {i \in RecordsByHash(token) : refresh_tokens[i].user_id = current_user}

\* the records logout_user selects in the call made for `current_user`:
\* select(RefreshToken).where(RefreshToken.token_hash == token_hash)
RecordsOf(token, current_user) == RecordsByHash(token)

\* logout_user: the first record with the token's hash, if any, is revoked
logout_user(s) ==
    /\ apc[s] = "idle"
    /\ \E token \in PresentableTokens :
        /\ last_call' = [op |-> "logout", token |-> token]
        /\ IF RecordsByHash(token) = {}
           THEN UNCHANGED refresh_tokens
           ELSE \E rec \in RecordsByHash(token) :
                    refresh_tokens' = Revoke(refresh_tokens, rec)
        /\ Finish(s, LoggedOut)
    /\ UNCHANGED <<users, now, rotated_from, refreshed, user_cache, chatVars>>

\* POST /auth/logout: the endpoint depends on get_current_user (here: the bearer token
\* is accepted or the call is answered 401) and hands the refresh_token of the body to
\* logout_user
logout(s) ==
    /\ apc[s] = "idle"
    /\ \/ /\ \E access_token \in PresentableBearers :
                 ~AccessTokenAccepted(access_token, now)
          /\ last_call' = NoCall
          /\ UNCHANGED refresh_tokens
          /\ Finish(s, Unauthorized)
       \/ \E current_user \in {access_token.sub : access_token \in
                                   {a \in PresentableBearers :
                                        AccessTokenAccepted(a, now)}},
             token \in PresentableTokens :
              /\ last_call' = [op |-> "logout", token |-> token,
                               caller |-> current_user]
              /\ IF RecordsOf(token, current_user) = {}
                 THEN UNCHANGED refresh_tokens
                 ELSE \E rec \in RecordsOf(token, current_user) :
                          refresh_tokens' = Revoke(refresh_tokens, rec)
              /\ Finish(s, LoggedOut)
    /\ UNCHANGED <<users, now, rotated_from, refreshed, user_cache, chatVars>>

\* a tick of the clock passes
Tick ==
    /\ now < MaxTime
    /\ now' = now + 1
    /\ UNCHANGED <<users, refresh_tokens, apc, local, result, rotated_from,
                   refreshed, chatVars>>
    /\ last_call' = NoCall
    /\ UNCHANGED user_cache

\* the lifetime of a refresh token passes
LifetimePasses ==
    /\ now <= MaxTime
    /\ now' = now + RefreshLifetime
    /\ UNCHANGED <<users, refresh_tokens, apc, local, result, rotated_from,
                   refreshed, chatVars>>
    /\ last_call' = NoCall
    /\ UNCHANGED user_cache

AuthStep(s) ==
    \/ register_user(s)
    \/ register_commit(s)
    \/ register_tokens(s)
    \/ login_user(s)
    \/ refresh_lookup(s)
    \/ refresh_generate(s)
    \/ refresh_revoke(s)
    \/ logout_user(s)

NextAuth ==
    \/ \E s \in Sessions : AuthStep(s)
    \/ Tick
    \/ LifetimePasses

\* the token service: two sessions whose calls interleave at every commit
SpecAuth == Init /\ [][NextAuth]_vars

NextAuthSeq ==
    \/ \E s \in SeqSessions : AuthStep(s)
    \/ Tick
    \/ LifetimePasses

\* the token service handling one call at a time
SpecAuthSeq == Init /\ [][NextAuthSeq]_vars

(* ------------------------------------------------------------------ *)
(* Identity resolver and user deletion                                 *)
(* ------------------------------------------------------------------ *)

\* _CACHE_TTL = 300  (seconds)
CACHE_TTL == 300

\* the cache lifetime in ticks of the clock
CacheLifetime == CACHE_TTL * TicksPerSecond

\* get_current_user returns a user
CurrentUser(user) == [kind |-> "user", status |-> 200, detail |-> "", user |-> user]

\* mutant of CacheFresh: an entry is served whatever its age
CacheFresh_Forever(sub, current_time) == sub \in DOMAIN user_cache

\* mutant of CacheFresh: an entry whose age equals the lifetime is still served
CacheFresh_Inclusive(sub, current_time) ==
    /\ sub \in DOMAIN user_cache
    /\ current_time - user_cache[sub].cached_time <= CacheLifetime

\* user_id in _user_cache and current_time - cached_time < _CACHE_TTL
CacheFresh(sub, current_time) ==
    /\ sub \in DOMAIN user_cache
    /\ current_time - user_cache[sub].cached_time < CacheLifetime

\* mutant of CachePut: the entry is stamped with the instant of the write, not with the
\* instant the call took before its lookup
CachePut_StampsAtWrite(cache, sub, user, current_time) ==
    [k \in DOMAIN cache \cup {sub} |->
        IF k = sub THEN [user |-> user, cached_time |-> now] ELSE cache[k]]

\* _user_cache[user_id] = (user, current_time)
CachePut(cache, sub, user, current_time) ==
    [k \in DOMAIN cache \cup {sub} |->
        IF k = sub THEN [user |-> user, cached_time |-> current_time] ELSE cache[k]]

\* get_current_user up to `user = await db.get(User, ...)`: decode, type check,
\* current_time = time.time(), the cache
get_current_user(s) ==
    /\ apc[s] = "idle"
    /\ \E token \in PresentableBearers :
        /\ last_call' = [op |-> "get_current_user", token |-> token]
        /\ IF ~AccessTokenAccepted(token, now)
           THEN Finish(s, Unauthorized)
           ELSE IF CacheFresh(token.sub, now)
           THEN Finish(s, CurrentUser(user_cache[token.sub].user))
           ELSE /\ apc' = [apc EXCEPT ![s] = "get_current_user_fetch"]
                /\ local' = [local EXCEPT ![s] =
                       [NoLocal EXCEPT !.user_id = token.sub, !.token = token,
                                       !.current_time = now]]
                /\ UNCHANGED result
    /\ UNCHANGED <<users, refresh_tokens, now, rotated_from, refreshed, user_cache,
                   chatVars>>

\* get_current_user from the return of db.get: absent raises, present fills the cache
get_current_user_fetch(s) ==
    /\ apc[s] = "get_current_user_fetch"
    /\ last_call' = [op |-> "get_current_user_fetch", token |-> local[s].token]
    /\ IF ~UserExists(local[s].user_id)
       THEN /\ Finish(s, Unauthorized)
            /\ UNCHANGED user_cache
       ELSE /\ user_cache' = CachePut(user_cache, local[s].user_id,
                                      UserSnapshot(local[s].user_id),
                                      local[s].current_time)
            /\ Finish(s, CurrentUser(UserSnapshot(local[s].user_id)))
    /\ UNCHANGED <<users, refresh_tokens, now, rotated_from, refreshed, chatVars>>

\* delete_user returns True or False
DeleteResult(found) ==
    [kind |-> "deleted", status |-> 0, detail |-> IF found THEN "True" ELSE "False"]

\* ondelete="CASCADE": the refresh_tokens rows of the user go with the user
CascadeDelete(table, user_id) ==
    [i \in DOMAIN table |->
        IF table[i].user_id = user_id THEN [table[i] EXCEPT !.deleted = TRUE]
        ELSE table[i]]

\* the transaction of a request that is not committed holds a row that refers to the
\* user or to a conversation of the user: the store makes the DELETE of the rows
\* referred to wait for it
ReferredTo(user_id) ==
    \E r \in Requests :
        \/ \E c \in DOMAIN txConvs[r] : txConvs[r][c].user_id = user_id
        \/ \E m \in DOMAIN txMsgs[r] :
               \/ txMsgs[r][m].author_id = user_id
               \/ /\ txMsgs[r][m].conversation_id \in DOMAIN conversations
                  /\ conversations[txMsgs[r][m].conversation_id].user_id = user_id

\* cascade="all, delete-orphan" of User.conversations: the conversations that stay
ConversationsWithout(user_id) ==
    [c \in {k \in DOMAIN conversations : conversations[k].user_id # user_id}
        |-> conversations[c]]

\* cascade="all, delete-orphan" of Conversation.messages: the messages of the user's
\* conversations go; User.messages has no delete cascade, so the messages the user
\* authored in other conversations get author_id = NULL
MessagesWithout(user_id) ==
    [m \in {k \in DOMAIN messages :
                messages[k].conversation_id \in DOMAIN ConversationsWithout(user_id)}
        |-> IF messages[m].author_id = user_id
            THEN [messages[m] EXCEPT !.author_id = NoAuthor]
            ELSE messages[m]]

\* delete_user: db.get, db.delete(user), commit
delete_user(s) ==
    /\ apc[s] = "idle"
    /\ \E user_id \in 1..MaxRecords :
        IF ~UserExists(user_id)
        THEN /\ Finish(s, DeleteResult(FALSE))
             /\ UNCHANGED <<users, refresh_tokens, conversations, messages>>
        ELSE /\ ~ReferredTo(user_id)
             /\ users' = [users EXCEPT ![user_id].deleted = TRUE,
                                       ![user_id].changed_at = now]
             /\ refresh_tokens' = CascadeDelete(refresh_tokens, user_id)
             /\ conversations' = ConversationsWithout(user_id)
             /\ messages' = MessagesWithout(user_id)
             /\ Finish(s, DeleteResult(TRUE))
    /\ last_call' = NoCall
    /\ UNCHANGED <<now, rotated_from, refreshed, user_cache>>
    /\ UNCHANGED <<nextId, txConvs, txMsgs, pc, caller, prompt, assistant_message_id,
                   user_message_id, conversation_id, buffer, events, commit_task,
                   gateway_calls, gateway_failed, outcome, handler, bearer, response,
                   sent>>

\* the cache lifetime, or one tick less, passes
CacheLifetimePasses ==
    /\ now <= MaxTime
    /\ \E age \in {CacheLifetime - 1, CacheLifetime} : now' = now + age
    /\ UNCHANGED <<users, refresh_tokens, apc, local, result, rotated_from,
                   refreshed, user_cache, chatVars>>
    /\ last_call' = NoCall

\* the state after a@example.com and b@example.com registered, one call after the other
InitRegistered ==
    /\ InitChat
    /\ users = [i \in 1..2 |->
                    [email |-> IF i = 1 THEN "a@example.com" ELSE "b@example.com",
                     password_hash |-> hash_password(Password), name |-> None,
                     oauth_provider |-> None, oauth_id |-> None,
                     is_email_verified |-> FALSE, changed_at |-> 0,
                     deleted |-> FALSE]]
    /\ refresh_tokens = [i \in 1..2 |->
                             [user_id |-> i,
                              token_hash |-> hash_token(create_refresh_token(i, 0)),
                              expires_at |-> RefreshLifetime, revoked |-> FALSE,
                              deleted |-> FALSE]]
    /\ now = 0
    /\ apc = [s \in Sessions |-> "idle"]
    /\ local = [s \in Sessions |-> NoLocal]
    /\ result = [session |-> "s1",
                 response |-> Tokens(TokenResponse(2, "b@example.com", 0)),
                 http |-> Registered([id |-> 2, email |-> "b@example.com",
                                      name |-> None])]
    /\ rotated_from = <<0, 0>>
    /\ refreshed = <<0, 0>>
    /\ last_call = NoCall
    /\ user_cache = <<>>

NextIdentity ==
    \/ \E s \in SeqSessions :
           \/ get_current_user(s)
           \/ get_current_user_fetch(s)
           \/ update_user(s)
           \/ delete_user(s)
    \/ CacheLifetimePasses

\* the identity resolver next to profile update and user deletion for two registered
\* users, one call at a time
SpecIdentity == InitRegistered /\ [][NextIdentity]_vars

NextCacheRace ==
    \/ \E s \in Sessions :
           \/ get_current_user(s)
           \/ get_current_user_fetch(s)
    \/ \E s \in SeqSessions :
           \/ update_user(s)
           \/ delete_user(s)
    \/ CacheLifetimePasses

\* two get_current_user calls in flight at a time on one event loop, next to profile
\* update and user deletion, for two registered users
SpecCacheRace == InitRegistered /\ [][NextCacheRace]_vars

NextLogout ==
    \/ \E s \in SeqSessions :
           \/ logout(s)
           \/ login_user(s)
           \/ refresh_lookup(s)
           \/ refresh_generate(s)
           \/ refresh_revoke(s)
    \/ Tick
    \/ LifetimePasses

\* the logout endpoint next to login and refresh for two registered users, one call at
\* a time
SpecLogout == InitRegistered /\ [][NextLogout]_vars

NextTokenTypes ==
    \/ \E s \in SeqSessions :
           \/ register_user(s)
           \/ register_commit(s)
           \/ register_tokens(s)
           \/ refresh_lookup(s)
           \/ refresh_generate(s)
           \/ refresh_revoke(s)
           \/ get_current_user(s)
           \/ get_current_user_fetch(s)
    \/ Tick

\* the two consumers of tokens, the identity resolver and rotation, one call at a time
SpecTokenTypes == Init /\ [][NextTokenTypes]_vars

(* ------------------------------------------------------------------ *)
(* Health endpoint                                                     *)
(* ------------------------------------------------------------------ *)

\* GET /health: return {"status": "healthy"}
health_check ==
    /\ result' = [session |-> "none",
                  response |-> [kind |-> "health", status |-> 200,
                                detail |-> "healthy"],
                  http |-> [kind |-> "health", status |-> 200,
                            detail |-> "healthy"]]
    /\ last_call' = [op |-> "health_check", token |-> ForgedToken]
    /\ UNCHANGED <<users, refresh_tokens, now, apc, local, rotated_from, refreshed,
                   user_cache, chatVars>>

NextHealth ==
    \/ health_check
    \/ NextTokenTypes

\* the health endpoint called in any state of the token consumers
SpecHealth == Init /\ [][NextHealth]_vars

(* ------------------------------------------------------------------ *)
(* Specifications                                                      *)
(* ------------------------------------------------------------------ *)

\* the request slots that carry a streamed turn; the others carry synchronous turns
StreamRequests == {"r1"}

StreamStep(r) ==
    \/ chat_stream(r)
    \/ stream_yield_snapshot(r)
    \/ stream_open_gateway(r)
    \/ commit_task_completes(r)
    \/ commit_task_fails(r)
    \/ stream_delta(r)
    \/ stream_skip_event(r)
    \/ gateway_ends(r)
    \/ gateway_raises(r)
    \/ stream_join_commit(r)
    \/ stream_final_update(r)
    \/ stream_final_store_error(r)
    \/ stream_yield_done(r)
    \/ stream_reraise(r)
    \/ client_disconnects(r)

ChatStep(r) ==
    \/ chat(r)
    \/ chat_reply(r)
    \/ chat_gateway_fails(r)

\* one streamed turn and synchronous turns, interleaved at every step
Next ==
    \/ \E r \in StreamRequests : StreamStep(r)
    \/ \E r \in Requests : ChatStep(r)

Spec == Init /\ [][Next]_vars

\* the streamed turn with what keeps it moving: the server resumes the generator
\* whenever it can go on, the commit task's db.commit() comes back (done or raised),
\* and the gateway channel ends or raises
SpecLive ==
    /\ Spec
    /\ \A r \in StreamRequests :
           /\ WF_vars(\/ stream_yield_snapshot(r) \/ stream_open_gateway(r)
                      \/ stream_join_commit(r) \/ stream_final_update(r)
                      \/ stream_final_store_error(r) \/ stream_yield_done(r)
                      \/ stream_reraise(r))
           /\ WF_vars(commit_task_completes(r) \/ commit_task_fails(r))
           /\ WF_vars(gateway_ends(r) \/ gateway_raises(r))

NextTwoStreams ==
    \E r \in Requests :
        \/ chat_stream(r) /\ pc'[r] = "gen_created" /\ prompt'[r].author_id = NoAuthor
        \/ stream_yield_snapshot(r)
        \/ stream_open_gateway(r)
        \/ commit_task_completes(r)
        \/ stream_delta(r)
        \/ gateway_ends(r)
        \/ gateway_raises(r)
        \/ stream_join_commit(r)
        \/ stream_final_update(r)
        \/ stream_yield_done(r)
        \/ stream_reraise(r)

\* two streamed turns interleaved at every step: calls that are accepted and name no
\* author, whose store operations succeed and whose clients stay connected
SpecTwoStreams == Init /\ [][NextTwoStreams]_vars

NextCascade ==
    \/ \E r \in Requests : ChatStep(r)
    \/ \E s \in SeqSessions : delete_user(s)

\* synchronous turns of two registered users next to user deletion
SpecCascade == InitRegistered /\ [][NextCascade]_vars

(* ------------------------------------------------------------------ *)
(* Properties                                                          *)
(* ------------------------------------------------------------------ *)

IsSnapshot(e) == e.type = "snapshot"

IsDone(e) == e.type = "data" /\ e.done

IsDelta(e) == e.type = "data" /\ ~e.done

DoneEmitted(r) == \E i \in DOMAIN events[r] : IsDone(events[r][i])

\* the deltas carried by the delta events of a stream, in the order of emission
RECURSIVE DeltasOf(_)
DeltasOf(evs) ==
    IF evs = <<>> THEN <<>>
    ELSE IF IsDelta(Head(evs)) THEN <<Head(evs).delta>> \o DeltasOf(Tail(evs))
    ELSE DeltasOf(Tail(evs))

\* the generator of request r has terminated on the success path or on the
\* gateway-failure path (after the done chunk), not by a store error or a disconnect
EndedByGateway(r) ==
    /\ handler[r] = "chat_stream"
    /\ pc[r] = "closed"
    /\ outcome[r] \in {Returned, Raised("gateway")}

\* the committed assistant row of request r's turn
Stored(r) == messages[assistant_message_id[r]]

IsStored(r) == assistant_message_id[r] \in DOMAIN messages

\* C1: no double-spend on rotation: of the refresh calls presenting the token of one
\* record, at most one returns a pair, and at most one new record results from it.
C1_NoDoubleSpend ==
    \A i \in DOMAIN refresh_tokens :
        /\ refreshed[i] <= 1
        /\ Cardinality({j \in DOMAIN refresh_tokens : rotated_from[j] = i}) <= 1

\* C2: rotation is one atomic unit: no committed state has the new record of a
\* rotation while the old record is still non-revoked, nor the old record revoked by
\* a rotation while no new record exists.
C2_RotationAtomic ==
    \A i \in DOMAIN refresh_tokens :
        /\ (\E j \in DOMAIN refresh_tokens : rotated_from[j] = i)
               => refresh_tokens[i].revoked
        /\ refreshed[i] > 0
               => \E j \in DOMAIN refresh_tokens : rotated_from[j] = i

C4_WireShape ==
    \A r \in Requests :
        /\ \A i \in DOMAIN events[r] :
            /\ IsSnapshot(events[r][i]) <=> i = 1
            /\ IsDone(events[r][i]) => i = Len(events[r]) /\ events[r][i].delta = <<>>
            /\ events[r][i].conversation_id = conversation_id[r]
            /\ events[r][i].message_id = assistant_message_id[r]
        /\ EndedByGateway(r) =>
            /\ Len(events[r]) >= 2
            /\ IsDone(events[r][Len(events[r])])
        /\ DoneEmitted(r) => pc[r] \in {"closed", "fail_raise"}

\* a stream that ended on the failure path: snapshot, two deltas, done
C4_Witness ==
    \E r \in Requests :
        /\ EndedByGateway(r)
        /\ gateway_failed[r]
        /\ Len(events[r]) = 4

C8_CancellationPersistsFailed ==
    \A r \in Requests :
        (outcome[r] = Cancelled /\ commit_task[r] # "running") =>
            /\ IsStored(r)
            /\ Stored(r).status = "failed"
            /\ Stored(r).content = Join(buffer[r])

\* C9: terminal event despite store errors: a stream whose termination hit a store
\* error (the read of the assistant row or the final commit) still ends with exactly
\* one done=true event.
C9_DoneDespiteStoreError ==
    \A r \in Requests :
        (pc[r] = "closed" /\ outcome[r] = Raised("store")) =>
            /\ events[r] # <<>>
            /\ IsDone(events[r][Len(events[r])])

\* request r presented the id of a committed conversation of another user
ForeignConversation(r) ==
    /\ pc[r] # "idle"
    /\ StripNonEmpty(prompt[r].text)
    /\ prompt[r].conversation_id \in DOMAIN conversations
    /\ conversations[prompt[r].conversation_id].user_id # caller[r]

\* request r presented a conversation id that no row has
UnknownConversation(r) ==
    /\ pc[r] # "idle"
    /\ StripNonEmpty(prompt[r].text)
    /\ prompt[r].conversation_id = GhostId

\* C10: conversation ownership: a chat or chat_stream call with the id of another
\* user's conversation ends with the same 404 'Conversation not found' as a call with
\* an unknown id, gets no data or event, invokes no gateway call and writes no message.
C10_ConversationOwnership ==
    \A r \in Requests :
        (ForeignConversation(r) \/ UnknownConversation(r)) =>
            /\ pc[r] = "closed"
            /\ outcome[r] = ConversationNotFound
            /\ events[r] = <<>>
            /\ gateway_calls[r] = 0
            /\ txMsgs[r] = EmptyTable
            /\ user_message_id[r] = NoId
            /\ assistant_message_id[r] = NoId
            /\ \A m \in DOMAIN messages :
                   messages[m].conversation_id = prompt[r].conversation_id =>
                       \E q \in Requests \ {r} :
                           m \in {user_message_id[q], assistant_message_id[q]}

\* chat_stream was called with the id of a conversation of the other user, which holds
\* that user's messages
C10_Witness ==
    \E r \in Requests :
        /\ handler[r] = "chat_stream"
        /\ ForeignConversation(r)
        /\ outcome[r] = ConversationNotFound
        /\ \E m \in DOMAIN messages :
               messages[m].conversation_id = prompt[r].conversation_id

\* a bearer token that is missing, invalid, expired or not of type access
RefusedToken(tok, t) ==
    \/ tok = NoToken
    \/ ~tok.signed
    \/ tok.exp < t
    \/ tok.type # "access"

\* a text that is empty or whitespace-only
BlankText(text) == \A i \in 1..Len(text) : text[i] = " "

\* request r was a chat or chat_stream call with a refused token or a blank text
BadCall(r) ==
    /\ handler[r] # "none"
    /\ RefusedToken(bearer[r], now) \/ BlankText(prompt[r].text)

\* C11: validation and auth errors precede any mutation: a chat or chat_stream call
\* with a blank text or a refused access token ends with a 400/401 error, has invoked
\* no gateway and holds no row, and the step that rejects it changes neither the
\* committed store nor any transaction.
C11_ErrorsPrecedeMutation ==
    /\ [](\A r \in Requests :
            BadCall(r) =>
                /\ pc[r] = "closed"
                /\ outcome[r] \in {NotAuthenticated, Unauthorized, EmptyText}
                /\ gateway_calls[r] = 0
                /\ txConvs[r] = EmptyTable /\ txMsgs[r] = EmptyTable
                /\ conversation_id[r] = NoId
                /\ user_message_id[r] = NoId
                /\ assistant_message_id[r] = NoId)
    /\ [][\A r \in Requests :
            (handler[r] = "none" /\ BadCall(r)') =>
                /\ conversations' = conversations
                /\ messages' = messages
                /\ nextId' = nextId
                /\ txConvs' = txConvs /\ txMsgs' = txMsgs
                /\ gateway_calls' = gateway_calls]_vars

\* one call was refused for its whitespace-only text, another for a refresh token
\* presented as bearer token
C11_Witness ==
    \E r, q \in Requests :
        /\ outcome[r] = EmptyText /\ prompt[r].text = <<" ">>
        /\ outcome[q] = Unauthorized /\ bearer[q].type = "refresh"

\* the synchronous chat call of request r failed in the Model Gateway
SyncGatewayFailed(r) == handler[r] = "chat" /\ outcome[r] = Raised("gateway")

\* C12: synchronous gateway failure leaves no assistant turn: once the gateway call of
\* a chat call has failed, the failure is the call's outcome, the call has no assistant
\* message, and every committed assistant row is the assistant message of another call.
C12_SyncFailureNoAssistantTurn ==
    \A r \in Requests :
        SyncGatewayFailed(r) =>
            /\ pc[r] = "closed"
            /\ assistant_message_id[r] = NoId
            /\ response[r] = NoResponse
            /\ \A id \in DOMAIN messages :
                   messages[id].role = "assistant" =>
                       \E q \in Requests \ {r} :
                           /\ assistant_message_id[q] = id
                           /\ ~SyncGatewayFailed(q)

\* a chat call failed in the gateway while another chat call committed its turn
C12_Witness ==
    \E r, q \in Requests :
        /\ SyncGatewayFailed(r)
        /\ handler[q] = "chat" /\ outcome[q] = Returned
        /\ conversation_id[q] = conversation_id[r]

\* the rows of `table` whose conversation is cid
InConversation(table, cid) ==
    {id \in DOMAIN table : table[id].conversation_id = cid}

C14_IdempotentLogout ==
    /\ [](last_call.op = "logout" =>
            /\ result.response = LoggedOut
            /\ RecordsByHash(last_call.token) # {} =>
                   \E i \in RecordsByHash(last_call.token) : refresh_tokens[i].revoked)
    /\ [][(last_call.op = "logout" /\ last_call' = last_call) =>
               refresh_tokens' = refresh_tokens]_vars

\* logout_user was called with a token whose record a refresh call had revoked
C14_Witness ==
    /\ last_call.op = "logout"
    /\ result.response = LoggedOut
    /\ \E i \in RecordsByHash(last_call.token) :
           /\ refresh_tokens[i].revoked
           /\ refreshed[i] = 1

\* the non-revoked records whose hash is the hash of the presented token
NonRevokedMatches(tok) ==
    {i \in DOMAIN refresh_tokens :
        refresh_tokens[i].token_hash = hash_token(tok) /\ ~refresh_tokens[i].revoked}

\* a token that passes the checks made before the record is looked up
WellFormedRefreshToken(tok) ==
    tok.signed /\ ~(tok.exp < WholeSecond(now)) /\ tok.type = "refresh"

C16_SingleUseMonotone ==
    /\ [](last_call.op = "refresh_passed" =>
            \A i \in RecordsByHash(last_call.token) : ~refresh_tokens[i].revoked)
    /\ [][\A i \in DOMAIN refresh_tokens :
              /\ i \in DOMAIN refresh_tokens'
              /\ refresh_tokens[i].revoked => refresh_tokens'[i].revoked
              /\ refresh_tokens'[i].user_id = refresh_tokens[i].user_id
              /\ refresh_tokens'[i].token_hash = refresh_tokens[i].token_hash
              /\ refresh_tokens'[i].expires_at = refresh_tokens[i].expires_at]_vars

\* C17: one trusted record per presented value: no two non-revoked records of table
\* refresh_tokens have the same token hash.
C17_OneTrustedRecordPerHash ==
    \A i, j \in DOMAIN refresh_tokens :
        (/\ refresh_tokens[i].token_hash = refresh_tokens[j].token_hash
         /\ ~refresh_tokens[i].revoked
         /\ ~refresh_tokens[j].revoked) => i = j

\* the step is the return of a token pair by a call of session s
ReturnsTokens(s) ==
    /\ apc'[s] = "idle"
    /\ result'.session = s
    /\ result'.response.kind = "tokens"
    /\ \/ apc[s] \in {"register_tokens", "refresh_revoke"}
       \/ apc' = apc /\ Len(refresh_tokens') # Len(refresh_tokens)

\* the row of table refresh_tokens' that the call returning in this step inserted
IssuedRow(s) ==
    IF apc[s] = "refresh_revoke"
    THEN refresh_tokens'[local[s].new_record]
    ELSE refresh_tokens'[Len(refresh_tokens')]

C19_TokenTypeSeparation ==
    [][/\ (last_call'.op = "get_current_user" /\ last_call'.token.type # "access") =>
              /\ result'.response =
                     [kind |-> "http_error", status |-> 401,
                      detail |-> "Could not validate credentials"]
              /\ apc' = apc
              /\ user_cache' = user_cache
              /\ users' = users
              /\ refresh_tokens' = refresh_tokens
       /\ (/\ last_call'.op \in {"refresh", "refresh_passed"}
           /\ last_call'.token.type # "refresh") =>
              /\ last_call'.op = "refresh"
              /\ result'.response.kind = "http_error"
              /\ result'.response.status = 401
              /\ apc' = apc
              /\ refresh_tokens' = refresh_tokens
      ]_vars

\* a refresh token that is signed, unexpired and on record, whose subject has a fresh
\* cache entry, was presented as bearer token and refused
C19_Witness ==
    /\ last_call.op = "get_current_user"
    /\ last_call.token.type = "refresh"
    /\ last_call.token.signed
    /\ ~(last_call.token.exp < WholeSecond(now))
    /\ \E i \in DOMAIN refresh_tokens :
           /\ refresh_tokens[i].token_hash = hash_token(last_call.token)
           /\ ~refresh_tokens[i].revoked
    /\ last_call.token.sub \in DOMAIN user_cache
    /\ now - user_cache[last_call.token.sub].cached_time < CacheLifetime
    /\ result.response.status = 401

\* the token is one get_current_user accepts at instant t: signed, unexpired, an
\* access token
StoredUser(sub) ==
    [id |-> sub, email |-> users[sub].email, name |-> users[sub].name]

ValidAccessToken(tok, t) ==
    tok.signed /\ ~(tok.exp < WholeSecond(t)) /\ tok.type = "access"

\* the cache holds an entry for the subject that is less than 300 s old at instant t
FreshEntry(sub, t) ==
    /\ sub \in DOMAIN user_cache
    /\ t - user_cache[sub].cached_time < CACHE_TTL * TicksPerSecond

\* C20: identity cache hit/miss: a get_current_user call with a valid access token
\* whose subject has a cache entry less than 300 s old returns the cached user in the
\* step that began it, without going on to the store read; otherwise it goes on to
\* read the store with the instant of the lookup kept, and the cache is as before;
\* the step after the store read either raises 401 with the cache as before (user
\* absent) or puts (user read, instant of the lookup) under the subject, leaves the
\* other entries as they were and returns the user read (user present).
C20_CacheHitMiss ==
    [][/\ (/\ last_call'.op = "get_current_user"
           /\ ValidAccessToken(last_call'.token, now)) =>
              LET sub == last_call'.token.sub IN
              IF FreshEntry(sub, now)
              THEN /\ result'.response =
                          [kind |-> "user", status |-> 200, detail |-> "",
                           user |-> user_cache[sub].user]
                   /\ apc' = apc
                   /\ user_cache' = user_cache
              ELSE /\ \E s \in Sessions :
                          /\ apc[s] = "idle"
                          /\ apc'[s] = "get_current_user_fetch"
                          /\ local'[s].user_id = sub
                          /\ local'[s].current_time = now
                   /\ result' = result
                   /\ user_cache' = user_cache
       /\ \A s \in Sessions :
              (apc[s] = "get_current_user_fetch" /\ apc'[s] = "idle") =>
                  LET sub == local[s].user_id IN
                  IF sub \notin DOMAIN users \/ users[sub].deleted
                  THEN /\ result'.response =
                              [kind |-> "http_error", status |-> 401,
                               detail |-> "Could not validate credentials"]
                       /\ user_cache' = user_cache
                  ELSE /\ DOMAIN user_cache' = DOMAIN user_cache \cup {sub}
                       /\ user_cache'[sub] =
                              [user |-> StoredUser(sub),
                               cached_time |-> local[s].current_time]
                       /\ \A k \in DOMAIN user_cache \ {sub} :
                              user_cache'[k] = user_cache[k]
                       /\ result'.response =
                              [kind |-> "user", status |-> 200, detail |-> "",
                               user |-> StoredUser(sub)]
      ]_vars

\* a call was answered from an entry one tick under 300 s old, with a user whose row
\* the store no longer has
C20_Witness ==
    /\ last_call.op = "get_current_user"
    /\ result.response.kind = "user"
    /\ LET sub == last_call.token.sub IN
       /\ sub \in DOMAIN user_cache
       /\ now - user_cache[sub].cached_time = CACHE_TTL * TicksPerSecond - 1
       /\ result.response.user = user_cache[sub].user
       /\ users[sub].deleted

\* the status is completed or failed
Terminal(status) == status \in {"completed", "failed"}

\* C24: assistant message lifecycle: a stored message never disappears, and a step
\* that changes a stored message changes one that is pending and leaves it completed
\* or failed (so a message changes at most once, and never after it is completed or
\* failed); every pending message, stored or flushed by a request, is the assistant
\* message of a streamed turn.
C24_AssistantLifecycle ==
    /\ [][\A id \in DOMAIN messages :
              /\ id \in DOMAIN messages'
              /\ messages'[id] # messages[id] =>
                     /\ messages[id].status = "pending"
                     /\ Terminal(messages'[id].status)
                     /\ messages'[id].role = "assistant"
         ]_vars
    /\ [](\A r \in Requests :
              /\ \A id \in DOMAIN txMsgs[r] :
                     txMsgs[r][id].status = "pending" =>
                         /\ id = assistant_message_id[r]
                         /\ handler[r] = "chat_stream"
                         /\ txMsgs[r][id].role = "assistant"
              /\ \A id \in DOMAIN messages :
                     messages[id].status = "pending" =>
                         /\ messages[id].role = "assistant"
                         /\ \E q \in Requests :
                                /\ id = assistant_message_id[q]
                                /\ handler[q] = "chat_stream"
                                /\ id # user_message_id[q])

\* a streamed turn has ended whose assistant message was committed as pending by the
\* background commit and is now stored as failed with the deltas received
C24_Witness ==
    \E r \in Requests :
        /\ handler[r] = "chat_stream"
        /\ pc[r] = "closed"
        /\ commit_task[r] = "done"
        /\ assistant_message_id[r] \in DOMAIN messages
        /\ messages[assistant_message_id[r]].status = "failed"
        /\ messages[assistant_message_id[r]].content # <<>>
        /\ user_message_id[r] \in DOMAIN messages
        /\ messages[user_message_id[r]].status = "completed"

\* C25: role/author consistency: every message with role assistant, stored or flushed
\* by a request, has no author id.
C25_AssistantHasNoAuthor ==
    /\ \A id \in DOMAIN messages :
           messages[id].role = "assistant" => messages[id].author_id = NoAuthor
    /\ \A r \in Requests : \A id \in DOMAIN txMsgs[r] :
           txMsgs[r][id].role = "assistant" => txMsgs[r][id].author_id = NoAuthor

\* a streamed and a synchronous turn, each sent with an author_id, have their
\* assistant messages stored without author
C25_Witness ==
    \E r, q \in Requests :
        /\ handler[r] = "chat_stream" /\ handler[q] = "chat"
        /\ prompt[r].author_id # NoAuthor /\ prompt[q].author_id # NoAuthor
        /\ assistant_message_id[r] \in DOMAIN messages
        /\ assistant_message_id[q] \in DOMAIN messages
        /\ messages[assistant_message_id[r]].role = "assistant"
        /\ messages[assistant_message_id[q]].role = "assistant"
        /\ messages[user_message_id[r]].author_id = prompt[r].author_id
        /\ messages[assistant_message_id[r]].author_id = NoAuthor
        /\ messages[assistant_message_id[q]].author_id = NoAuthor

\* the title is the first 80 characters of the text
FirstEighty(title, text) ==
    /\ Len(title) = (IF Len(text) < 80 THEN Len(text) ELSE 80)
    /\ \A i \in 1..Len(title) : title[i] = text[i]

\* the step is the start of a call of request r that passes validation
CallAccepted(r) == pc[r] = "idle" /\ pc'[r] \notin {"idle", "closed"}

\* C27: lazy conversation creation and immutable ownership: a call that starts
\* without a conversation id adds exactly one conversation to its unit of work, under
\* an id no row has, owned by the caller and titled with the first 80 characters of
\* the text; a call that starts with a conversation id, or is refused, adds none; no
\* later step of a call adds one; a step stores at most one new conversation, the one
\* the committing call added; and a stored conversation stays, with its user_id.
C27_LazyConversation ==
    [][/\ \A r \in Requests :
              /\ (CallAccepted(r) /\ prompt'[r].conversation_id = NoId) =>
                     /\ Cardinality(DOMAIN txConvs'[r]) = 1
                     /\ \A cid \in DOMAIN txConvs'[r] :
                            /\ cid \notin DOMAIN conversations
                            /\ \A q \in Requests \ {r} : cid \notin DOMAIN txConvs[q]
                            /\ cid = conversation_id'[r]
                            /\ txConvs'[r][cid].user_id = bearer'[r].sub
                            /\ FirstEighty(txConvs'[r][cid].title, prompt'[r].text)
              /\ (CallAccepted(r) /\ prompt'[r].conversation_id # NoId) =>
                     /\ txConvs'[r] = <<>>
                     /\ conversation_id'[r] = prompt'[r].conversation_id
                     /\ conversation_id'[r] \in DOMAIN conversations
                     /\ conversations[conversation_id'[r]].user_id = bearer'[r].sub
              /\ ~CallAccepted(r) =>
                     \A cid \in DOMAIN txConvs'[r] :
                         cid \in DOMAIN txConvs[r] /\ txConvs'[r][cid] = txConvs[r][cid]
       /\ \A cid \in DOMAIN conversations :
              /\ cid \in DOMAIN conversations'
              /\ conversations'[cid] = conversations[cid]
       /\ Cardinality(DOMAIN conversations' \ DOMAIN conversations) <= 1
       /\ \A cid \in DOMAIN conversations' \ DOMAIN conversations :
              \E r \in Requests :
                  /\ prompt[r].conversation_id = NoId
                  /\ cid \in DOMAIN txConvs[r]
                  /\ conversations'[cid] = txConvs[r][cid]
      ]_vars

\* a call without conversation id and with an 81-character text has stored its
\* conversation under an 80-character title, and a second call by the same user with
\* that conversation's id has returned without a second conversation being stored
C27_Witness ==
    \E r, q \in Requests :
        /\ r # q
        /\ prompt[r].conversation_id = NoId
        /\ Len(prompt[r].text) = 81
        /\ conversation_id[r] \in DOMAIN conversations
        /\ Len(conversations[conversation_id[r]].title) = 80
        /\ conversations[conversation_id[r]].user_id = caller[r]
        /\ prompt[q].conversation_id = conversation_id[r]
        /\ outcome[q].kind = "returned"
        /\ Cardinality(DOMAIN conversations) = 1

\* C29: health endpoint: a GET /health answers 200 with the body {"status": "ok"} and
\* changes nothing of the store, the cache or the calls in progress.
C29_HealthOk ==
    [][last_call'.op = "health_check" =>
           /\ result'.response.status = 200
           /\ result'.response.detail = "ok"
           /\ UNCHANGED <<users, refresh_tokens, user_cache, apc, local, now, chatVars>>
      ]_vars

\* the generator of request r is past the join: at the final update or after it
PastJoin(r) == pc[r] \in {"ok_update", "fail_update", "ok_done", "fail_done", "fail_raise"}

\* C30: join before reconcile: on both paths the generator is at or past the final
\* update only when the background commit it started has finished (committed or
\* raised); and the step that stores the assistant message of a streamed turn as
\* completed or failed finds the commit task done and the pending row already stored.
C30_JoinBeforeReconcile ==
    /\ [](\A r \in Requests :
              (handler[r] = "chat_stream" /\ PastJoin(r)) =>
                  commit_task[r] \in {"done", "failed"})
    /\ [][\A r \in Requests :
              (/\ handler[r] = "chat_stream"
               /\ assistant_message_id[r] \in DOMAIN messages'
               /\ messages'[assistant_message_id[r]].status \in {"completed", "failed"}
               /\ ~(/\ assistant_message_id[r] \in DOMAIN messages
                    /\ messages[assistant_message_id[r]]
                           = messages'[assistant_message_id[r]])) =>
                  /\ commit_task[r] = "done"
                  /\ pc[r] \in {"ok_update", "fail_update"}
                  /\ assistant_message_id[r] \in DOMAIN messages
                  /\ messages[assistant_message_id[r]].status = "pending"
                  /\ user_message_id[r] \in DOMAIN messages
         ]_vars

\* both paths: the gateway channel ended, or raised, while the commit task was still
\* running, and the generator is waiting for it
C30_Witness ==
    \E r \in Requests :
        /\ pc[r] \in {"ok_join", "fail_join"}
        /\ commit_task[r] = "running"
        /\ buffer[r] # <<>>
        /\ assistant_message_id[r] \notin DOMAIN messages

\* C26: register returns tokens: the step that ends a successful register call leaves
\* the created user stored and a refresh_tokens record inserted for it, and the
\* endpoint's answer carries the created user together with the access/refresh pair
\* that was issued.
C26_RegisterReturnsTokens ==
    [][\A s \in Sessions :
           (apc[s] = "register_tokens" /\ apc'[s] = "idle") =>
               LET uid == local[s].user_id IN
               /\ uid \in DOMAIN users'
               /\ Len(refresh_tokens') = Len(refresh_tokens) + 1
               /\ refresh_tokens'[Len(refresh_tokens')].user_id = uid
               /\ "user" \in DOMAIN result'.http
               /\ result'.http.user.id = uid
               /\ "tokens" \in DOMAIN result'.http
               /\ result'.http.tokens.access_token.sub = uid
               /\ result'.http.tokens.refresh_token.sub = uid
               /\ hash_token(result'.http.tokens.refresh_token)
                      = refresh_tokens'[Len(refresh_tokens')].token_hash
      ]_vars

\* a stored user has a password
HasPassword(i) == users[i].password_hash # NoPasswordHash

\* a stored user has an OAuth identity: a provider and the provider's id
HasOAuthIdentity(i) == users[i].oauth_provider # None /\ users[i].oauth_id # None

\* C22: credential invariant: in every store state reached by register, OAuth login
\* (create or link), password update and profile update, every user has a password
\* hash or an OAuth identity (provider and provider id) or both, never neither.
C22_CredentialInvariant ==
    \A i \in DOMAIN users :
        ~users[i].deleted => (HasPassword(i) \/ HasOAuthIdentity(i))

\* a user created by OAuth login that has no password, next to a registered user that
\* was linked to an OAuth identity, changed its password and updated its profile
C22_Witness ==
    \E i, j \in DOMAIN users :
        /\ ~HasPassword(i) /\ HasOAuthIdentity(i)
        /\ HasPassword(j) /\ HasOAuthIdentity(j)
        /\ users[j].password_hash # <<"bcrypt", Password>>
        /\ users[j].name # None

\* the stored users with an email
Registered_With(email) ==
    {i \in DOMAIN users : users[i].email = email /\ ~users[i].deleted}

\* C23: email uniqueness: in every store state no two users share an email, under any
\* interleaving of register and OAuth login (two concurrent registrations of one email
\* included); a register call for an email that is already registered fails with
\* "Email already registered", and creates no user and no refresh_tokens record.
C23_EmailUniqueness ==
    /\ [](\A i, j \in DOMAIN users :
              (i # j /\ ~users[i].deleted /\ ~users[j].deleted)
                  => users[i].email # users[j].email)
    /\ [][last_call'.op = "register" =>
              /\ users' = users
              /\ refresh_tokens' = refresh_tokens
              /\ Registered_With(last_call'.email) # {} =>
                     /\ result'.response.status = 400
                     /\ result'.response.detail = "Email already registered"
                     /\ result'.http = result'.response
                     /\ apc'[result'.session] = "idle"
                     /\ \A s \in Sessions :
                            apc'[s] = "register_commit" => apc[s] = "register_commit"
         ]_vars

\* a register call for a registered email was refused while the other session is in
\* the middle of a call that is about to insert a user
C23_Witness ==
    /\ last_call.op = "register"
    /\ Registered_With(last_call.email) # {}
    /\ result.response.detail = "Email already registered"
    /\ \E s \in Sessions : apc[s] \in {"register_commit", "oauth_create"}

\* the store no longer holds what a returned user snapshot says
OutOfDate(user) ==
    \/ user.id \notin DOMAIN users
    \/ users[user.id].deleted
    \/ user # StoredUser(user.id)

\* C21: bounded staleness: a user returned from the cache comes from an entry less than
\* 300 s old, and an entry is stamped no later than the store read that filled it, so
\* every user returned was read from the store less than 300 s before; a returned user
\* that the store no longer holds as returned (the profile was updated or the user was
\* deleted since) was changed in the store less than 300 s ago.
C21_BoundedStaleness ==
    [][/\ (/\ last_call'.op = "get_current_user"
           /\ result' # result
           /\ result'.response.kind = "user") =>
              LET sub == last_call'.token.sub IN
              /\ sub \in DOMAIN user_cache
              /\ result'.response.user = user_cache[sub].user
              /\ now - user_cache[sub].cached_time < CACHE_TTL * TicksPerSecond
       /\ (/\ last_call'.op = "get_current_user_fetch"
           /\ result'.response.kind = "user") =>
              LET sub == last_call'.token.sub IN
              /\ result'.response.user = StoredUser(sub)
              /\ user_cache'[sub].user = StoredUser(sub)
              /\ user_cache'[sub].cached_time <= now
       /\ (/\ last_call'.op \in {"get_current_user", "get_current_user_fetch"}
           /\ result' # result
           /\ result'.response.kind = "user"
           /\ OutOfDate(result'.response.user)) =>
              now - users[result'.response.user.id].changed_at
                  < CACHE_TTL * TicksPerSecond
      ]_vars

\* a call was answered from the cache with a user whose profile the store has since
\* updated, one tick before the entry runs out
C21_Witness ==
    /\ last_call.op = "get_current_user"
    /\ result.response.kind = "user"
    /\ ~users[result.response.user.id].deleted
    /\ result.response.user.name # users[result.response.user.id].name
    /\ now - user_cache[result.response.user.id].cached_time
           = CACHE_TTL * TicksPerSecond - 1

\* the stored conversation a stored message belongs to is one of the user's
InConversationOf(m, u) ==
    /\ messages[m].conversation_id \in DOMAIN conversations
    /\ conversations[messages[m].conversation_id].user_id = u

\* C28: cascade on deletion: the step that commits the deletion of user u leaves no
\* refresh_tokens row of u, no conversation of u and no message of a conversation of u
\* in the store, and every row of another user (its users row, its refresh_tokens
\* rows, its conversations and the messages in them) is as it was before.
C28_CascadeOnDeletion ==
    [][\A u \in DOMAIN users :
           (~users[u].deleted /\ users'[u].deleted) =>
               /\ \A i \in DOMAIN refresh_tokens' :
                      refresh_tokens'[i].user_id = u => refresh_tokens'[i].deleted
               /\ \A c \in DOMAIN conversations' : conversations'[c].user_id # u
               /\ \A m \in DOMAIN messages : InConversationOf(m, u) =>
                      m \notin DOMAIN messages'
               /\ \A i \in DOMAIN users : i # u => users'[i] = users[i]
               /\ \A i \in DOMAIN refresh_tokens :
                      refresh_tokens[i].user_id # u =>
                          refresh_tokens'[i] = refresh_tokens[i]
               /\ \A c \in DOMAIN conversations :
                      conversations[c].user_id # u =>
                          /\ c \in DOMAIN conversations'
                          /\ conversations'[c] = conversations[c]
               /\ \A m \in DOMAIN messages :
                      ~InConversationOf(m, u) =>
                          /\ m \in DOMAIN messages'
                          /\ messages'[m] = messages[m]
      ]_vars

\* the snapshot event is the first event request r has emitted
SnapshotEmitted(r) == events[r] # <<>> /\ events[r][1].type = "snapshot"

\* C31: start-of-stream ordering: the step of chat_stream that hands over the generator
\* has added the user message and the pending assistant message to one unit of work,
\* with their ids assigned, while nothing is emitted, no commit is started and the
\* gateway is not invoked; the snapshot event is emitted while no commit of those rows
\* is started and carries those ids; the commit is started and the gateway is opened
\* only once the snapshot was emitted.
C31_StartOfStreamOrdering ==
    /\ [](\A r \in Requests :
              handler[r] = "chat_stream" =>
                  /\ (commit_task[r] # "none" \/ gateway_calls[r] > 0) =>
                         SnapshotEmitted(r)
                  /\ SnapshotEmitted(r) =>
                         /\ user_message_id[r] # NoId
                         /\ assistant_message_id[r] # NoId
                         /\ events[r][1].request_message_id = user_message_id[r]
                         /\ events[r][1].message_id = assistant_message_id[r])
    /\ [][\A r \in Requests :
              /\ (pc[r] = "idle" /\ pc'[r] = "gen_created") =>
                     /\ user_message_id'[r] # NoId
                     /\ assistant_message_id'[r] # NoId
                     /\ user_message_id'[r] # assistant_message_id'[r]
                     /\ {user_message_id'[r], assistant_message_id'[r]}
                            = DOMAIN txMsgs'[r]
                     /\ txMsgs'[r][user_message_id'[r]].role = "user"
                     /\ txMsgs'[r][assistant_message_id'[r]].role = "assistant"
                     /\ txMsgs'[r][assistant_message_id'[r]].status = "pending"
                     /\ messages' = messages
                     /\ events'[r] = <<>>
                     /\ commit_task'[r] = "none"
                     /\ gateway_calls'[r] = 0
              /\ (handler[r] = "chat_stream" /\ ~SnapshotEmitted(r)
                      /\ SnapshotEmitted(r)') =>
                     /\ commit_task[r] = "none"
                     /\ commit_task'[r] = "none"
                     /\ gateway_calls'[r] = 0
                     /\ messages' = messages
                     /\ conversations' = conversations
         ]_vars

\* the snapshot of a streamed turn is out while both rows of the turn are still in the
\* unit of work, no commit is started and the gateway is not invoked
C31_Witness ==
    \E r \in Requests :
        /\ handler[r] = "chat_stream"
        /\ SnapshotEmitted(r)
        /\ commit_task[r] = "none"
        /\ gateway_calls[r] = 0
        /\ {user_message_id[r], assistant_message_id[r]} = DOMAIN txMsgs[r]
        /\ assistant_message_id[r] \notin DOMAIN messages

\* C32: no per-delta store write: a step in which the buffer or the event stream of a
\* streamed turn grows by a delta is taken after the background commit was started and
\* before the gateway channel has ended or raised; it appends one non-empty delta to
\* the buffer and one delta event carrying it (conversation id, message id, delta) to
\* the stream, and leaves the stored and the uncommitted rows, the commit task and the
\* generator's position as they are; a step that leaves the buffer as it is emits no
\* delta event.
C32_NoPerDeltaStoreWrite ==
    [][\A r \in Requests :
           /\ (buffer'[r] # buffer[r]
                   \/ (pc[r] = "streaming" /\ events'[r] # events[r])) =>
                  /\ pc[r] = "streaming" /\ pc'[r] = "streaming"
                  /\ commit_task[r] # "none"
                  /\ Len(buffer'[r]) = Len(buffer[r]) + 1
                  /\ \A i \in DOMAIN buffer[r] : buffer'[r][i] = buffer[r][i]
                  /\ buffer'[r][Len(buffer'[r])] # <<>>
                  /\ Len(events'[r]) = Len(events[r]) + 1
                  /\ \A i \in DOMAIN events[r] : events'[r][i] = events[r][i]
                  /\ events'[r][Len(events'[r])] =
                         [type |-> "data", conversation_id |-> conversation_id[r],
                          request_message_id |-> NoId,
                          message_id |-> assistant_message_id[r],
                          delta |-> buffer'[r][Len(buffer'[r])], done |-> FALSE]
                  /\ messages' = messages
                  /\ conversations' = conversations
                  /\ txMsgs' = txMsgs
                  /\ txConvs' = txConvs
                  /\ commit_task' = commit_task
           /\ (buffer'[r] = buffer[r]) =>
                  \A i \in DOMAIN events'[r] :
                      (i \notin DOMAIN events[r]) =>
                          ~(events'[r][i].type = "data" /\ ~events'[r][i].done)
      ]_vars

\* two deltas were received after the pending row was committed, and the stored row is
\* still empty and pending
C32_Witness ==
    \E r \in Requests :
        /\ pc[r] = "streaming"
        /\ Len(buffer[r]) = 2
        /\ commit_task[r] = "done"
        /\ assistant_message_id[r] \in DOMAIN messages
        /\ messages[assistant_message_id[r]].content = <<>>
        /\ messages[assistant_message_id[r]].status = "pending"

RowsOf(q) == {user_message_id[q], assistant_message_id[q]} \ {NoId}

C35_CacheUnderConcurrentWriters ==
    /\ [](\A sub \in DOMAIN user_cache : user_cache[sub].user.id = sub)
    /\ [][/\ DOMAIN user_cache \subseteq DOMAIN user_cache'
          /\ \A sub \in DOMAIN user_cache' :
                 (sub \notin DOMAIN user_cache \/ user_cache'[sub] # user_cache[sub]) =>
                     /\ \E s \in Sessions :
                            /\ apc[s] = "get_current_user_fetch"
                            /\ apc'[s] = "idle"
                            /\ local[s].user_id = sub
                            /\ user_cache'[sub] =
                                   [user |-> StoredUser(sub),
                                    cached_time |-> local[s].current_time]
                     /\ sub \in DOMAIN users
                     /\ ~users[sub].deleted
                     /\ \A other \in DOMAIN user_cache \ {sub} :
                            user_cache'[other] = user_cache[other]
         ]_vars

\* two calls for one subject missed the cache at different instants; one has written
\* its entry, stamped with its own instant, and the other is still waiting for db.get
C35_Witness ==
    \E s, t \in Sessions :
        /\ s # t
        /\ apc[t] = "get_current_user_fetch"
        /\ apc[s] = "idle"
        /\ result.session = s
        /\ last_call.op = "get_current_user_fetch"
        /\ local[t].user_id \in DOMAIN user_cache
        /\ last_call.token.sub = local[t].user_id
        /\ user_cache[local[t].user_id].cached_time # local[t].current_time
        /\ user_cache[local[t].user_id].user = StoredUser(local[t].user_id)

\* the users that hold the Google identity `provider_id`
HoldersOf(provider_id) ==
    {i \in DOMAIN users : /\ users[i].oauth_provider = "google"
                          /\ users[i].oauth_id = provider_id
                          /\ ~users[i].deleted}

\* the users registered under `email`
HoldersOfEmail(email) ==
    {i \in DOMAIN users : users[i].email = email /\ ~users[i].deleted}

\* C36: OAuth get-or-create, calls handled one at a time: get_or_create_oauth_user
\* goes on with the user that holds the given (provider, provider id) when there is
\* one, and creates none; otherwise, when a user has the email, it links the identity
\* to that user, marks the email verified and creates none; otherwise it creates
\* exactly one user with that identity and no password hash. The user a login returns
\* is the one holder of the identity, and no identity has two holders: a repeated
\* login finds that same user and adds none.
C36_OAuthGetOrCreate ==
    /\ [](\A provider_id \in {"g1", "g2"} : Cardinality(HoldersOf(provider_id)) <= 1)
    /\ [][\A s \in Sessions :
              /\ (apc[s] = "idle" /\ local'[s].oauth_id # None) =>
                     /\ users' = users
                     /\ IF HoldersOf(local'[s].oauth_id) # {}
                        THEN /\ apc'[s] = "oauth_tokens"
                             /\ local'[s].user_id \in HoldersOf(local'[s].oauth_id)
                        ELSE IF HoldersOfEmail(local'[s].email) # {}
                        THEN /\ apc'[s] = "oauth_link"
                             /\ local'[s].user_id \in HoldersOfEmail(local'[s].email)
                        ELSE apc'[s] = "oauth_create"
              /\ (apc[s] = "oauth_link" /\ apc'[s] # apc[s]) =>
                     /\ apc'[s] = "oauth_tokens"
                     /\ local'[s].user_id = local[s].user_id
                     /\ DOMAIN users' = DOMAIN users
                     /\ \A i \in DOMAIN users :
                            i # local[s].user_id => users'[i] = users[i]
                     /\ users'[local[s].user_id].oauth_provider = "google"
                     /\ users'[local[s].user_id].oauth_id = local[s].oauth_id
                     /\ users'[local[s].user_id].is_email_verified
                     /\ users'[local[s].user_id].email = users[local[s].user_id].email
                     /\ users'[local[s].user_id].password_hash =
                            users[local[s].user_id].password_hash
              /\ (apc[s] = "oauth_create" /\ apc'[s] # apc[s]) =>
                     /\ apc'[s] = "oauth_tokens"
                     /\ Len(users') = Len(users) + 1
                     /\ \A i \in DOMAIN users : users'[i] = users[i]
                     /\ local'[s].user_id = Len(users')
                     /\ users'[Len(users')].email = local[s].email
                     /\ users'[Len(users')].oauth_provider = "google"
                     /\ users'[Len(users')].oauth_id = local[s].oauth_id
                     /\ users'[Len(users')].password_hash = NoPasswordHash
                     /\ users'[Len(users')].is_email_verified
              /\ (apc[s] = "oauth_tokens" /\ apc'[s] # apc[s]) =>
                     /\ users' = users
                     /\ HoldersOf(local[s].oauth_id) = {local[s].user_id}
                     /\ result'.response =
                            Tokens(TokenResponse(local[s].user_id,
                                                 users[local[s].user_id].email, now))
         ]_vars

\* a first OAuth login created a user without a password hash, the same login was
\* repeated and has found that user: it is still the only user, and both logins were
\* given tokens for it
C36_Witness ==
    /\ Len(users) = 1
    /\ users[1].password_hash = NoPasswordHash
    /\ users[1].oauth_provider = "google"
    /\ users[1].is_email_verified
    /\ Len(refresh_tokens) = 2
    /\ \A i \in DOMAIN refresh_tokens : refresh_tokens[i].user_id = 1
    /\ result.response \in {Tokens(TokenResponse(1, users[1].email, t)) : t \in 0..now}
    /\ \A s \in Sessions : apc[s] = "idle"

\* the synchronous turn r has created its conversation
CreatesConversation(r) == handler[r] = "chat" /\ prompt[r].conversation_id = NoId

\* C37: single-commit synchronous turn: no committed store state holds the user message
\* of a synchronous turn, or the conversation the turn created, without the turn's
\* assistant message; the step that makes the user message durable is the one commit
\* issued after the gateway replied, and it makes the assistant message and the new
\* conversation (if any) durable with it and nothing else.
C37_SingleCommitSynchronousTurn ==
    /\ [](\A r \in Requests :
              (/\ handler[r] = "chat"
               /\ \/ user_message_id[r] \in DOMAIN messages
                  \/ CreatesConversation(r) /\ conversation_id[r] \in DOMAIN conversations)
                  => /\ outcome[r] = Returned
                     /\ assistant_message_id[r] \in DOMAIN messages
                     /\ user_message_id[r] \in DOMAIN messages
                     /\ conversation_id[r] \in DOMAIN conversations)
    /\ [][\A r \in Requests :
              (/\ handler'[r] = "chat"
               /\ user_message_id'[r] \in DOMAIN messages'
               /\ ~(handler[r] = "chat" /\ user_message_id[r] \in DOMAIN messages)) =>
                  /\ pc[r] = "sync_gateway"
                  /\ gateway_calls[r] = 1
                  /\ txMsgs[r] = user_message_id[r] :> txMsgs[r][user_message_id[r]]
                  /\ assistant_message_id[r] = NoId
                  /\ pc'[r] = "closed"
                  /\ outcome'[r] = Returned
                  /\ DOMAIN messages' =
                         DOMAIN messages \cup {user_message_id[r], assistant_message_id'[r]}
                  /\ assistant_message_id'[r] \notin DOMAIN messages
                  /\ \A id \in DOMAIN messages : messages'[id] = messages[id]
                  /\ DOMAIN conversations' =
                         DOMAIN conversations \cup {conversation_id[r]}
                  /\ CreatesConversation(r) <=>
                         conversation_id[r] \notin DOMAIN conversations
                  /\ txMsgs'[r] = EmptyTable
                  /\ txConvs'[r] = EmptyTable
         ]_vars

\* a synchronous turn that created its conversation has returned, and the conversation,
\* the user message and the assistant message are all in the store, while another
\* synchronous turn waits for the gateway with none of its rows in the store
C37_Witness ==
    \E r, q \in Requests :
        /\ CreatesConversation(r)
        /\ outcome[r] = Returned
        /\ conversation_id[r] \in DOMAIN conversations
        /\ user_message_id[r] \in DOMAIN messages
        /\ assistant_message_id[r] \in DOMAIN messages
        /\ handler[q] = "chat"
        /\ pc[q] = "sync_gateway"
        /\ user_message_id[q] \notin DOMAIN messages

\* the records whose hash is the hash of `token`
MatchingRecords(token) ==
    {i \in DOMAIN refresh_tokens :
        refresh_tokens[i].token_hash = hash_token(token) /\ ~refresh_tokens[i].deleted}

\* C38: logout is not bound to the token's owner: a logout_user call, whichever user's
\* access token authenticated it and whatever the signature, type or expiry of the
\* presented token, returns success and revokes a record whose hash is the hash of the
\* presented token when there is one; it leaves every other record, and the users,
\* as they are, and inserts no record.
C38_LogoutNotBoundToOwner ==
    [][last_call'.op = "logout" =>
           /\ result'.response = LoggedOut
           /\ Len(refresh_tokens') = Len(refresh_tokens)
           /\ users' = users
           /\ IF MatchingRecords(last_call'.token) = {}
              THEN refresh_tokens' = refresh_tokens
              ELSE \E rec \in MatchingRecords(last_call'.token) :
                       /\ refresh_tokens'[rec].revoked
                       /\ refresh_tokens' =
                              [refresh_tokens EXCEPT ![rec].revoked = TRUE]
      ]_vars

\* a logout call authenticated by one user has revoked the record of another user's
\* refresh token, and the caller's own record is not revoked
C38_Witness ==
    /\ last_call.op = "logout"
    /\ result.response = LoggedOut
    /\ \E i \in MatchingRecords(last_call.token) :
           /\ refresh_tokens[i].revoked
           /\ refresh_tokens[i].user_id # last_call.caller
    /\ \E j \in DOMAIN refresh_tokens :
           /\ refresh_tokens[j].user_id = last_call.caller
           /\ ~refresh_tokens[j].revoked

\* the row of the user message of turn r, uncommitted or stored
UserRowsOf(r) ==
    {txMsgs[r][id] : id \in DOMAIN txMsgs[r] \cap {user_message_id[r]}}
        \cup {messages[id] : id \in DOMAIN messages \cap {user_message_id[r]}}

\* C39: author of the user turn: the user message that chat and chat_stream add and
\* persist has a non-null author id, which is the author_id of the prompt when the
\* prompt has one and the id of the authenticated caller otherwise; every stored user
\* message has an author.
C39_AuthorOfUserTurn ==
    /\ \A r \in Requests :
           (handler[r] \in {"chat", "chat_stream"} /\ user_message_id[r] # NoId) =>
               \A row \in UserRowsOf(r) :
                   /\ row.role = "user"
                   /\ row.author_id # NoAuthor
                   /\ prompt[r].author_id # NoAuthor => row.author_id = prompt[r].author_id
                   /\ prompt[r].author_id = NoAuthor => row.author_id = caller[r]
    /\ \A id \in DOMAIN messages :
           messages[id].role = "user" => messages[id].author_id \in Users

\* a synchronous turn sent without author_id has stored its user message under the
\* caller, and a streamed turn sent by the owner of a conversation with the id of the
\* other user as author_id has stored its user message under that other user
C39_Witness ==
    \E r, q \in Requests :
        /\ handler[r] = "chat" /\ handler[q] = "chat_stream"
        /\ user_message_id[r] \in DOMAIN messages
        /\ user_message_id[q] \in DOMAIN messages
        /\ prompt[r].author_id = NoAuthor
        /\ messages[user_message_id[r]].author_id = caller[r]
        /\ prompt[q].author_id \notin {NoAuthor, caller[q]}
        /\ messages[user_message_id[q]].author_id = prompt[q].author_id
        /\ conversations[conversation_id[q]].user_id = caller[q]

====
